---- MODULE Spec2Model ----
\* Job portal crawler: the Store (src/data/database.py), the Processor
\* (src/data/processor.py), the CLI detail-fetch (src/main.py) and the
\* on-demand refresh endpoint (src/api/routes_refresh.py).
\*
\* Three specifications share the variables:
\*   Spec        one pipeline / one CLI at a time, every handler one step;
\*   SpecConc    two OS processes working on the same category file, one step
\*               per lock acquisition and per file-system call;
\*   SpecRefresh the request handlers and worker threads of POST /refresh/now.
EXTENDS Integers, Sequences, FiniteSets, TLC

\* ---------------------------------------------------------------- bounds
\* entry identities 1..MaxId (the md5 ids of generate_entry_id)
MaxId == 2
\* longest batch a crawl hands to the Processor
MaxBatch == 2
\* cap on times_seen, in the guards of process_*
MaxSeen == 3
\* cap on the per-category write counter, in the guards of insert/insert_many
MaxWrites == 2
\* calls one OS process makes before it exits (SpecConc)
MaxCalls == 1
\* POST /refresh/now requests the API receives (SpecRefresh)
MaxRequests == 3
\* seconds of the clock that names the backup files (SpecBackup)
MaxClock == 4
\* backups created in one run of SpecBackup
MaxCreated == 4
\* largest configured max_backups of SpecBackup
MaxRetention == 2
\* portals in the configuration (SpecManager)
MaxPortals == 2
\* new entries one portal crawl can yield (SpecManager)
MaxNew == 1
\* execute_all runs of one CrawlerManager (SpecManager)
MaxRuns == 2
\* fetch_page calls of one crawler (SpecFetch)
MaxFetches == 3

MaxDetailRequests == 2

MaxTitleLen == 2

MaxOrgLen == 1

MaxBatches == 3

MaxPage == 2

MaxLimit == 2

MaxStores == 3

MaxCells == 2

MaxRows == 2

MaxAnchors == 2

MaxNodes == 3

MaxFieldLen == 1

MaxGetLimit == 3

VARIABLES
    cat,               \* the category this run works on (a key of JSONDatabase.files)
    file,              \* content of files[cat] on disk: [doc, whole]
    tmp,               \* content of files[cat].with_suffix('.tmp'), or NoFile
    write_count,       \* JSONDatabase._write_counts[cat]
    backups,           \* number of {cat}_backup_*.json files in backups/
    backup_frequency,  \* JSONDatabase.backup_frequency (configuration)
    id_cache,          \* DataProcessor._id_cache[cat]
    call,              \* the last finished call: its name, arguments and return value
    lock,              \* holder of the FileLock of files[cat] (0: free)
    proc,              \* SpecConc: per OS process, its call in progress
    observed,          \* SpecConc: what the API's lock-free reader saw last
    refresh_status,    \* SpecRefresh: the module-level dict of routes_refresh
    handler,           \* SpecRefresh: per request, where trigger_refresh stands
    worker,            \* SpecRefresh: per request, where its run_refresh thread stands
    backup_dir,        \* SpecBackup: the backup files of one category and the clock
    manager,           \* SpecManager: a CrawlerManager and its execute_all in progress
    fetcher,           \* SpecFetch: a BaseCrawler inside fetch_page
    detail,            \* SpecDetails: a POST /details/fetch request
    idgen,             \* SpecId: calls of generate_entry_id
    runs,              \* SpecSeen: per id, the batches it appeared in
    api                \* SpecApi: a by-portal query of the API and its answer

storeVars == <<cat, file, tmp, write_count, backups, backup_frequency, id_cache, call>>

concVars == <<lock, proc, observed>>

refreshVars == <<refresh_status, handler, worker>>

extVars == <<backup_dir, manager, fetcher, detail, idgen, runs, api>>

vars == <<storeVars, concVars, refreshVars, extVars>>

\* ------------------------------------------------------------ data model
Ids == 1..MaxId

ListingCategories == {"jobs", "results", "admit_cards"}

Categories == ListingCategories \cup {"notifications", "crawl_history"}

NoFile == [doc |-> <<>>, whole |-> FALSE, exists |-> FALSE]

\* A JSON document on disk. whole = FALSE is a file whose text is not (yet) a
\* complete JSON document: json.load raises JSONDecodeError on it.
Document(data) == [doc |-> data, whole |-> TRUE, exists |-> TRUE]

\* open(path, 'w') truncates: an empty file, which is no JSON document
Truncated == [doc |-> <<>>, whole |-> FALSE, exists |-> TRUE]

\* Urls an entry can carry; only the scheme matters to the validators.
Urls == {"https://portal/x", "ftp://portal/x"}

\* A JobEntry / ResultEntry / AdmitCardEntry / NotificationEntry as built by a
\* crawler: detailed_info is left at its default None.
Entries == [id : Ids, title : {"T"}, url : Urls]

RECURSIVE SeqsUpTo(_, _)
SeqsUpTo(S, n) ==
    IF n = 0 THEN {<<>>}
    ELSE LET shorter == SeqsUpTo(S, n - 1)
         IN shorter \cup {Append(s, e) : s \in {t \in shorter : Len(t) = n - 1}, e \in S}

Batches == SeqsUpTo(Entries, MaxBatch)

\* asdict(self): the fields of the model that the Processor and the Store read.
\* detailed_info is TRUE when populated, FALSE when None.
to_dict(entry) == [id |-> entry.id, detailed_info |-> FALSE]

IdsOf(data) == {data[i].id : i \in 1..Len(data)}

\* dict.get(key, default)
get_times_seen(record) ==
    IF "times_seen" \in DOMAIN record THEN record.times_seen ELSE 1

StartsWithHttp(url) == url \in {"https://portal/x", "http://portal/x"}

\* the id of an entry whose id string is empty
NoId == 0

\* mutant: the title is not required
_validate_job_any_title(job) ==
    /\ ~(job.id = NoId \/ job.url = "")
    /\ StartsWithHttp(job.url)

_validate_job(job) ==
    /\ ~(job.id = NoId \/ job.title = "" \/ job.url = "")
    /\ StartsWithHttp(job.url)

\* {job.get('id'): job for job in existing_jobs}[id]: the last record with that id
existing_by_id(existing, id) ==
    LET last == CHOOSE i \in 1..Len(existing) :
                    /\ existing[i].id = id
                    /\ \A j \in (i + 1)..Len(existing) : existing[j].id # id
    IN existing[last]

\* mutant: the occurrence counter is carried over, not incremented
duplicate_dict_no_increment(job, old_job) ==
    [id |-> job.id, detailed_info |-> to_dict(job).detailed_info,
     is_new |-> FALSE, is_duplicate |-> TRUE,
     times_seen |-> get_times_seen(old_job)]

duplicate_dict(job, old_job) ==
    [id |-> job.id, detailed_info |-> to_dict(job).detailed_info,
     is_new |-> FALSE, is_duplicate |-> TRUE,
     times_seen |-> get_times_seen(old_job) + 1]

new_dict(job) ==
    [id |-> job.id, detailed_info |-> to_dict(job).detailed_info,
     is_new |-> TRUE, is_duplicate |-> FALSE, times_seen |-> 1]

\* mutant: a re-discovered record is not removed from the existing list
process_entry_keeps_old(acc, job, by_id) ==
    IF ~_validate_job(job) THEN acc
    ELSE IF job.id \in IdsOf(by_id)
    THEN [acc EXCEPT
            !.new_jobs = Append(@, duplicate_dict(job, existing_by_id(by_id, job.id))),
            !.duplicate_count = @ + 1,
            !.updated_count = @ + 1]
    ELSE [acc EXCEPT
            !.new_jobs = Append(@, new_dict(job)),
            !.id_cache = @ \cup {job.id}]

\* one iteration of the loop of process_jobs; by_id is the list existing_by_id
\* was built from, before the loop
process_entry(acc, job, by_id) ==
    IF ~_validate_job(job) THEN acc
    ELSE IF job.id \in IdsOf(by_id)
    THEN [acc EXCEPT
            !.new_jobs = Append(@, duplicate_dict(job, existing_by_id(by_id, job.id))),
            !.existing_jobs = SelectSeq(@, LAMBDA j : j.id # job.id),
            !.duplicate_count = @ + 1,
            !.updated_count = @ + 1]
    ELSE [acc EXCEPT
            !.new_jobs = Append(@, new_dict(job)),
            !.id_cache = @ \cup {job.id}]

\* mutant: an entry is looked up among the records of this batch as well
RECURSIVE process_loop_sees_batch(_, _, _)
process_loop_sees_batch(jobs, acc, by_id) ==
    IF jobs = <<>> THEN acc
    ELSE LET seen == by_id \o acc.new_jobs
             step == IF ~_validate_job(Head(jobs)) THEN acc
                     ELSE IF Head(jobs).id \in IdsOf(seen)
                     THEN [acc EXCEPT
                             !.new_jobs = Append(@, duplicate_dict(Head(jobs),
                                                   existing_by_id(seen, Head(jobs).id))),
                             !.existing_jobs = SelectSeq(@, LAMBDA j : j.id # Head(jobs).id),
                             !.duplicate_count = @ + 1,
                             !.updated_count = @ + 1]
                     ELSE [acc EXCEPT
                             !.new_jobs = Append(@, new_dict(Head(jobs))),
                             !.id_cache = @ \cup {Head(jobs).id}]
         IN process_loop_sees_batch(Tail(jobs), step, by_id)

RECURSIVE process_loop(_, _, _)
process_loop(jobs, acc, by_id) ==
    IF jobs = <<>> THEN acc
    ELSE process_loop(Tail(jobs), process_entry(acc, Head(jobs), by_id), by_id)

\* mutant: the batch is written behind the remaining records
process_batch_appends(jobs, existing_jobs, cache) ==
    LET acc == process_loop(jobs,
                   [new_jobs |-> <<>>, existing_jobs |-> existing_jobs,
                    duplicate_count |-> 0, updated_count |-> 0, id_cache |-> cache],
                   existing_jobs)
    IN [writes |-> acc.new_jobs # <<>>,
        all_jobs |-> acc.existing_jobs \o acc.new_jobs,
        id_cache |-> acc.id_cache,
        stats |-> [total |-> Len(jobs),
                   new |-> Len(acc.new_jobs) - acc.updated_count,
                   duplicates |-> acc.duplicate_count,
                   updated |-> acc.updated_count]]

\* process_jobs between its read and its write: what it would write and return
process_batch(jobs, existing_jobs, cache) ==
    LET acc == process_loop(jobs,
                   [new_jobs |-> <<>>, existing_jobs |-> existing_jobs,
                    duplicate_count |-> 0, updated_count |-> 0, id_cache |-> cache],
                   existing_jobs)
    IN [writes |-> acc.new_jobs # <<>>,
        all_jobs |-> acc.new_jobs \o acc.existing_jobs,
        id_cache |-> acc.id_cache,
        stats |-> [total |-> Len(jobs),
                   new |-> Len(acc.new_jobs) - acc.updated_count,
                   duplicates |-> acc.duplicate_count,
                   updated |-> acc.updated_count]]

SeenWithinBound(data) == \A i \in 1..Len(data) : get_times_seen(data[i]) <= MaxSeen

\* ------------------------------------------------------------- the Store
\* _read_file: with the lock held, the parsed list; [] when the file is missing
\* or is no JSON document, and [] as well when the lock wait timed out (the
\* Timeout is caught by `except Exception`).
_read_file(f, locked) ==
    IF ~locked THEN <<>>
    ELSE IF ~f.exists THEN <<>>
    ELSE IF ~f.whole THEN <<>>
    ELSE f.doc

\* insert: data.insert(0, entry)
insert_data(data, entry) == <<entry>> \o data

\* insert_many: data = entries + data
insert_many_data(data, entries) == entries \o data

\* update: the first record with that id is replaced by updated_data
update_data(data, entry_id, updated_data) ==
    LET first == CHOOSE i \in 1..Len(data) :
                     /\ data[i].id = entry_id
                     /\ \A j \in 1..(i - 1) : data[j].id # entry_id
    IN [data EXCEPT ![first] = updated_data]

\* delete: [entry for entry in data if entry.get('id') != entry_id]
delete_data(data, entry_id) == SelectSeq(data, LAMBDA e : e.id # entry_id)

\* retention of the Store: JSONDatabase(max_backups=...)
max_backups == 1

\* the condition under which insert / insert_many call _create_backup
backup_due(count, frequency) == frequency = 0 \/ count % frequency = 0

\* _cleanup_old_backups: the number of backup files left of n
_cleanup_old_backups(n) ==
    IF n > max_backups
    THEN IF max_backups = 0 THEN n   \* backups[:-0] is the empty slice
         ELSE max_backups
    ELSE n

\* _create_backup: the numbers of backup files it can leave. The name carries
\* the time to the second, so a backup made in the second of the previous one
\* overwrites it.
_create_backup(n, f) ==
    IF ~f.exists THEN {n}
    ELSE {_cleanup_old_backups(n + 1)} \cup (IF n > 0 THEN {_cleanup_old_backups(n)} ELSE {})

NoStats == [total |-> 0, new |-> 0, duplicates |-> 0, updated |-> 0]

\* the record of a finished call
Call(op, jobs, stats, ok, wrote, backup) ==
    [op |-> op, jobs |-> jobs, stats |-> stats, ok |-> ok, wrote |-> wrote,
     backup |-> backup]

\* -------------------------------------------- Spec: one handler, one step
\* process_jobs / process_results / process_admit_cards, the three copies of
\* one body: read, loop, one direct _write_file of the whole category.
process_listing(op, jobs) ==
    IF jobs = <<>>
    THEN /\ call' = Call(op, jobs, NoStats, TRUE, FALSE, FALSE)
         /\ UNCHANGED <<cat, file, tmp, write_count, backups, backup_frequency, id_cache>>
    ELSE LET existing == _read_file(file, TRUE)
             r == process_batch(jobs, existing, id_cache)
         IN /\ SeenWithinBound(r.all_jobs)
            /\ file' = IF r.writes THEN Document(r.all_jobs) ELSE file
            /\ id_cache' = r.id_cache
            /\ call' = Call(op, jobs, r.stats, TRUE, r.writes, FALSE)
            /\ UNCHANGED <<cat, tmp, write_count, backups, backup_frequency>>

process_jobs(jobs) == cat = "jobs" /\ process_listing("process_jobs", jobs)

process_results(results) == cat = "results" /\ process_listing("process_results", results)

process_admit_cards(admit_cards) ==
    cat = "admit_cards" /\ process_listing("process_admit_cards", admit_cards)

\* the loop of process_notifications: duplicates are decided by the id cache
notification_entry(acc, notif) ==
    IF ~_validate_job(notif) THEN acc
    ELSE IF notif.id \in acc.id_cache
    THEN [acc EXCEPT !.duplicate_count = @ + 1]
    ELSE [acc EXCEPT !.new_notifications = Append(@, to_dict(notif)),
                     !.id_cache = @ \cup {notif.id}]

RECURSIVE notification_loop(_, _)
notification_loop(notifications, acc) ==
    IF notifications = <<>> THEN acc
    ELSE notification_loop(Tail(notifications), notification_entry(acc, Head(notifications)))

\* process_notifications: the loop, then insert_many of the new ones
process_notifications(notifications) ==
    /\ cat = "notifications"
    /\ IF notifications = <<>>
       THEN /\ call' = Call("process_notifications", notifications, NoStats, TRUE, FALSE, FALSE)
            /\ UNCHANGED <<cat, file, tmp, write_count, backups, backup_frequency, id_cache>>
       ELSE LET acc == notification_loop(notifications,
                           [new_notifications |-> <<>>, duplicate_count |-> 0,
                            id_cache |-> id_cache])
                new == acc.new_notifications
                stats == [total |-> Len(notifications), new |-> Len(new),
                          duplicates |-> acc.duplicate_count, updated |-> 0]
                count == write_count + Len(new)
            IN /\ count <= MaxWrites
               /\ id_cache' = acc.id_cache
               /\ IF new = <<>>
                  THEN /\ call' = Call("process_notifications", notifications, stats,
                                       TRUE, FALSE, FALSE)
                       /\ UNCHANGED <<file, write_count, backups>>
                  ELSE /\ file' = Document(insert_many_data(_read_file(file, TRUE), new))
                       /\ write_count' = count
                       /\ IF backup_due(count, backup_frequency)
                          THEN backups' \in _create_backup(backups, file')
                          ELSE backups' = backups
                       /\ call' = Call("process_notifications", notifications, stats,
                                       TRUE, TRUE, backup_due(count, backup_frequency))
               /\ UNCHANGED <<cat, tmp, backup_frequency>>

\* cap on the stored crawl_history records
HistoryCap == MaxWrites + 1

\* process_crawl_history: db.insert('crawl_history', history.to_dict())
process_crawl_history(history_id) ==
    /\ cat = "crawl_history"
    /\ write_count < MaxWrites
    /\ Len(file.doc) < HistoryCap
    /\ file' = Document(insert_data(_read_file(file, TRUE), [id |-> history_id]))
    /\ write_count' = write_count + 1
    /\ IF backup_due(write_count', backup_frequency)
       THEN backups' \in _create_backup(backups, file')
       ELSE backups' = backups
    /\ call' = Call("insert", <<>>, NoStats, TRUE, TRUE,
                    backup_due(write_count', backup_frequency))
    /\ UNCHANGED <<cat, tmp, backup_frequency, id_cache>>

\* cmd_crawl_details: pick the item_number-th record, fetch its details and
\* store it back with db.update
cmd_crawl_details(item_number, details) ==
    /\ cat \in ListingCategories
    /\ LET items == _read_file(file, TRUE)
       IN IF items = <<>> \/ item_number < 1 \/ item_number > Len(items) \/ ~details
          THEN /\ call' = Call("cmd_crawl_details", <<>>, NoStats, FALSE, FALSE, FALSE)
               /\ UNCHANGED file
          ELSE LET selected_item == [items[item_number] EXCEPT !.detailed_info = TRUE]
                   data == _read_file(file, TRUE)
               IN /\ file' = Document(update_data(data, selected_item.id, selected_item))
                  /\ call' = Call("cmd_crawl_details", <<>>, NoStats, TRUE, TRUE, FALSE)
    /\ UNCHANGED <<cat, tmp, write_count, backups, backup_frequency, id_cache>>

\* JSONDatabase.delete
delete(entry_id) ==
    /\ LET data == _read_file(file, TRUE)
           kept == delete_data(data, entry_id)
       IN IF Len(kept) = Len(data)
          THEN /\ call' = Call("delete", <<>>, NoStats, FALSE, FALSE, FALSE)
               /\ UNCHANGED file
          ELSE /\ file' = Document(kept)
               /\ call' = Call("delete", <<>>, NoStats, TRUE, TRUE, FALSE)
    /\ UNCHANGED <<cat, tmp, write_count, backups, backup_frequency, id_cache>>

\* JSONDatabase.clear_category: a backup first, then the empty list is written
clear_category ==
    /\ backups' \in _create_backup(backups, file)
    /\ file' = Document(<<>>)
    /\ call' = Call("clear_category", <<>>, NoStats, TRUE, TRUE, TRUE)
    /\ UNCHANGED <<cat, tmp, write_count, backup_frequency, id_cache>>

\* _load_id_cache of a new DataProcessor
_load_id_cache(entries) == IdsOf(entries)

\* CrawlerManager.__init__: a new JSONDatabase (fresh write counters) and a
\* new DataProcessor (id cache loaded from the Store)
CrawlerManager_init ==
    /\ write_count' = 0
    /\ id_cache' = _load_id_cache(_read_file(file, TRUE))
    /\ call' = Call("init", <<>>, NoStats, TRUE, FALSE, FALSE)
    /\ UNCHANGED <<cat, file, tmp, backups, backup_frequency>>

\* values of the variables a specification does not use
NotObserved == [result |-> "none", mid_write |-> FALSE]

ConcUnused == lock = 0 /\ proc = <<>> /\ observed = NotObserved

RefreshUnused == refresh_status = [in_progress |-> FALSE, status |-> "idle"]
                 /\ handler = <<>> /\ worker = <<>>

ExtUnused ==
    /\ backup_dir = <<>> /\ manager = <<>> /\ fetcher = <<>> /\ detail = <<>>
    /\ idgen = <<>> /\ runs = <<>> /\ api = <<>>

\* backup_frequency values of the configuration (0: every write)
Frequencies == 0..MaxWrites

\* JSONDatabase.__init__ and _initialize_files on an empty data directory,
\* then DataProcessor.__init__. No handler of a listing category reads
\* backup_frequency, so one value stands for all there.
Init ==
    /\ cat \in Categories
    /\ file = Document(<<>>)
    /\ tmp = NoFile
    /\ write_count = 0
    /\ backups = 0
    /\ backup_frequency \in (IF cat \in ListingCategories THEN {MaxWrites} ELSE Frequencies)
    /\ id_cache = {}
    /\ call = Call("init", <<>>, NoStats, TRUE, FALSE, FALSE)
    /\ ConcUnused
    /\ RefreshUnused
    /\ ExtUnused

Next ==
    \/ \E jobs \in Batches : process_jobs(jobs) /\ UNCHANGED <<concVars, refreshVars, extVars>>
    \/ \E results \in Batches : process_results(results) /\ UNCHANGED <<concVars, refreshVars, extVars>>
    \/ \E cards \in Batches : process_admit_cards(cards) /\ UNCHANGED <<concVars, refreshVars, extVars>>
    \/ \E notifications \in Batches :
          process_notifications(notifications) /\ UNCHANGED <<concVars, refreshVars, extVars>>
    \/ \E h \in Ids : process_crawl_history(h) /\ UNCHANGED <<concVars, refreshVars, extVars>>
    \/ \E n \in 1..(MaxId * MaxBatch), details \in BOOLEAN :
          cmd_crawl_details(n, details) /\ UNCHANGED <<concVars, refreshVars, extVars>>
    \/ \E id \in Ids : delete(id) /\ UNCHANGED <<concVars, refreshVars, extVars>>
    \/ clear_category /\ UNCHANGED <<concVars, refreshVars, extVars>>
    \/ CrawlerManager_init /\ UNCHANGED <<concVars, refreshVars, extVars>>

Spec == Init /\ [][Next]_vars

\* ------------------------------------------------------- claims on Spec
ProcessOps == {"process_jobs", "process_results", "process_admit_cards"}

ValidEntries(jobs) == SelectSeq(jobs, LAMBDA j : _validate_job(j))

Positions(data, id) == {i \in 1..Len(data) : data[i].id = id}

\* C3 as claimed: after process_jobs / process_results / process_admit_cards
\* handled a batch with at least one valid entry, the file is the valid entries
\* in arrival order, followed by the stored records whose id does not occur in
\* the batch, in their previous order.
C3_NotInBatch ==
    [][(call'.op \in ProcessOps /\ ValidEntries(call'.jobs) # <<>>) =>
        LET valid == ValidEntries(call'.jobs)
            untouched == SelectSeq(file.doc, LAMBDA r : r.id \notin IdsOf(call'.jobs))
        IN /\ Len(file'.doc) = Len(valid) + Len(untouched)
           /\ \A i \in 1..Len(valid) : file'.doc[i].id = valid[i].id
           /\ \A i \in 1..Len(untouched) : file'.doc[Len(valid) + i] = untouched[i]]_vars

\* C3 amended: after process_jobs / process_results / process_admit_cards
\* handled a batch with at least one valid entry, the file is the valid entries
\* in arrival order, followed by the stored records whose id is the id of no
\* valid entry of the batch, in their previous order and unchanged; no stored
\* id is missing. (An invalid entry is dropped before its id is looked at: the
\* stored record of its id stays.)
C3_FrontThenUntouched ==
    [][(call'.op \in ProcessOps /\ ValidEntries(call'.jobs) # <<>>) =>
        LET valid == ValidEntries(call'.jobs)
            untouched == SelectSeq(file.doc, LAMBDA r : r.id \notin IdsOf(valid))
        IN /\ Len(file'.doc) = Len(valid) + Len(untouched)
           /\ \A i \in 1..Len(valid) : file'.doc[i].id = valid[i].id
           /\ \A i \in 1..Len(untouched) : file'.doc[Len(valid) + i] = untouched[i]
           /\ IdsOf(file.doc) \subseteq IdsOf(file'.doc)]_vars

\* C3 witness: a batch of a valid and an invalid entry was written, and the
\* stored record with the id of the invalid one is behind the valid one
C3_Witness ==
    /\ call.op \in ProcessOps
    /\ call.wrote
    /\ Len(call.jobs) = 2
    /\ Len(ValidEntries(call.jobs)) = 1
    /\ Len(file.doc) = 2
    /\ file.doc[1].id = ValidEntries(call.jobs)[1].id
    /\ file.doc[2].id \in IdsOf(call.jobs) \ IdsOf(ValidEntries(call.jobs))

\* C4 as claimed: every valid entry of the batch whose id was stored is, after
\* the call, the record at position 0, with times_seen one higher.
C4_PositionZero ==
    [][call'.op \in ProcessOps =>
        \A k \in 1..Len(call'.jobs) :
            (_validate_job(call'.jobs[k]) /\ call'.jobs[k].id \in IdsOf(file.doc)) =>
                /\ file'.doc[1].id = call'.jobs[k].id
                /\ \E i \in Positions(file.doc, call'.jobs[k].id) :
                       file'.doc[1].times_seen = get_times_seen(file.doc[i]) + 1]_vars

\* C4 amended: a valid entry whose id was stored is written into the leading
\* block, at the place of its arrival among the valid entries of the batch
\* (position 0 when it is the first of them), marked duplicate with times_seen
\* one higher, and no copy of it stays behind the block.
C4_FrontBlock ==
    [][call'.op \in ProcessOps =>
        \A k \in 1..Len(call'.jobs) :
            (_validate_job(call'.jobs[k]) /\ call'.jobs[k].id \in IdsOf(file.doc)) =>
                LET place == Len(ValidEntries(SubSeq(call'.jobs, 1, k)))
                    block == Len(ValidEntries(call'.jobs))
                IN /\ file'.doc[place].id = call'.jobs[k].id
                   /\ file'.doc[place].is_duplicate
                   /\ \E i \in Positions(file.doc, call'.jobs[k].id) :
                          file'.doc[place].times_seen = get_times_seen(file.doc[i]) + 1
                   /\ \A i \in Positions(file'.doc, call'.jobs[k].id) : i <= block]_vars

\* C4 witness: a re-discovered record was written at the second place, behind a
\* new one
C4_Witness ==
    /\ call.op \in ProcessOps
    /\ call.stats.duplicates >= 1
    /\ Len(file.doc) >= 2
    /\ file.doc[1].is_new
    /\ file.doc[2].is_duplicate
    /\ file.doc[2].times_seen = 2

\* C5: when a process_* call is followed at once by the same call on the same
\* batch, the number of records after the second equals the number after the
\* first; and when the first met none of the ids in the store, every record the
\* second writes is marked duplicate with times_seen = 2.
C5_Idempotent ==
    [][(call.op \in ProcessOps /\ call'.op = call.op /\ call'.jobs = call.jobs) =>
        /\ Len(file'.doc) = Len(file.doc)
        /\ call.stats.duplicates = 0 =>
               \A i \in 1..Len(ValidEntries(call'.jobs)) :
                   file'.doc[i].is_duplicate /\ file'.doc[i].times_seen = 2]_vars

\* C5 witness: the second of two runs over a batch of MaxBatch valid entries
C5_Witness ==
    /\ call.op \in ProcessOps
    /\ Len(ValidEntries(call.jobs)) = MaxBatch
    /\ call.stats.duplicates = MaxBatch
    /\ call.stats.new = 0
    /\ Len(file.doc) = MaxBatch
    /\ \A i \in 1..Len(file.doc) : file.doc[i].is_duplicate /\ file.doc[i].times_seen = 2

\* C7 as claimed: a record whose detailed_info was populated still has it
\* populated after a process_* call re-discovered its id.
C7_DetailsKept ==
    [][call'.op \in ProcessOps =>
        \A id \in IdsOf(ValidEntries(call'.jobs)) :
            (\E i \in Positions(file.doc, id) : file.doc[i].detailed_info) =>
                \A j \in Positions(file'.doc, id) : file'.doc[j].detailed_info]_vars

\* C10 as claimed: every successful write of insert, insert_many, update,
\* delete or a process_* call adds one to the category's write counter, and a
\* backup is made exactly when the counter is then a multiple of
\* backup_frequency (always when it is 0).
C10_CounterAndBackup ==
    [][(call'.wrote /\ call'.op # "clear_category") =>
        /\ write_count' = write_count + 1
        /\ call'.backup <=> backup_due(write_count', backup_frequency)]_vars

\* ------------------------ SpecConc: two processes on one category file
\* Each process owns a JSONDatabase (its own write counter) and works on the
\* file of one listing category. A step is one lock acquisition (with the read
\* or the timeout it leads to) or one file-system call of _write_file.
Procs == {1, 2}

\* the batches a concurrent pipeline hands to process_jobs
ConcBatches == {b \in Batches : Len(b) = 1}

NoDone == [op |-> "none", ok |-> FALSE, changed |-> FALSE, timed_out |-> FALSE]

NoRecord == [id |-> 0]

\* a process between two calls
IdleProc(count, calls, done) ==
    [pc |-> "idle", op |-> "none", jobs |-> <<>>, arg |-> 0, data |-> <<>>,
     selected |-> NoRecord, pre |-> <<>>, timed_out |-> FALSE,
     write_count |-> count, calls |-> calls, done |-> done]

\* return of a call without (or after) a write
Finish(p, ok, changed, timed_out, count) ==
    proc' = [proc EXCEPT ![p] =
                IdleProc(count, proc[p].calls, [op |-> proc[p].op, ok |-> ok, changed |-> changed,
                                 timed_out |-> timed_out])]

ConcOps == {"process_jobs", "cmd_crawl_details", "insert", "insert_many", "delete",
            "clear_category"}

\* a process enters a call of the Processor, the CLI or the Store
StartCall(p, op, jobs, arg) ==
    /\ proc[p].pc = "idle"
    /\ proc[p].calls < MaxCalls
    /\ op = "process_jobs" => jobs # <<>>
    /\ op = "insert_many" => jobs # <<>>
    /\ op = "insert" => proc[p].write_count + 1 <= MaxWrites
    /\ op = "insert_many" => proc[p].write_count + Len(jobs) <= MaxWrites
    /\ op \notin {"process_jobs", "insert_many"} => jobs = <<>>
    /\ op \notin {"cmd_crawl_details", "insert", "delete"} => arg = 1
    /\ proc' = [proc EXCEPT ![p].pc = IF op = "clear_category" THEN "write" ELSE "read",
                            ![p].op = op, ![p].jobs = jobs, ![p].arg = arg,
                            ![p].data = <<>>, ![p].timed_out = FALSE,
                            ![p].calls = @ + 1]
    /\ IF op = "clear_category"
       THEN backups' \in _create_backup(backups, file)
       ELSE backups' = backups
    /\ UNCHANGED <<cat, file, tmp, write_count, backup_frequency, id_cache, call,
                   lock, observed>>

\* what a call does with the list its _read_file returned
AfterRead(p, data, timed_out) ==
    LET me == proc[p]
        to_write(new_data) == proc' = [proc EXCEPT ![p].pc = "write", ![p].data = new_data,
                                                   ![p].timed_out = timed_out]
    IN CASE me.op = "process_jobs" ->
              LET r == process_batch(me.jobs, data, {})
              IN /\ SeenWithinBound(r.all_jobs)
                 /\ IF r.writes THEN to_write(r.all_jobs)
                    ELSE Finish(p, TRUE, FALSE, timed_out, me.write_count)
         [] me.op = "insert" ->
              to_write(insert_data(data, new_dict([id |-> me.arg])))
         [] me.op = "insert_many" ->
              to_write(insert_many_data(data, [i \in 1..Len(me.jobs) |-> to_dict(me.jobs[i])]))
         [] me.op = "delete" ->
              IF Len(delete_data(data, me.arg)) = Len(data)
              THEN Finish(p, FALSE, FALSE, timed_out, me.write_count)
              ELSE to_write(delete_data(data, me.arg))
         [] me.op = "cmd_crawl_details" /\ me.pc = "read" ->
              IF data = <<>> \/ me.arg > Len(data)
              THEN Finish(p, FALSE, FALSE, timed_out, me.write_count)
              ELSE proc' = [proc EXCEPT ![p].pc = "fetch", ![p].selected = data[me.arg],
                                        ![p].timed_out = timed_out]
         [] me.op = "cmd_crawl_details" /\ me.pc = "update" ->
              IF me.selected.id \notin IdsOf(data)
              THEN Finish(p, FALSE, FALSE, me.timed_out \/ timed_out, me.write_count)
              ELSE proc' = [proc EXCEPT
                               ![p].pc = "write",
                               ![p].data = update_data(data, me.selected.id, me.selected),
                               ![p].timed_out = me.timed_out \/ timed_out]

\* _read_file with the lock acquired: the lock is taken, the file read, the
\* lock released
ReadFile(p) ==
    /\ proc[p].pc \in {"read", "update"}
    /\ lock = 0
    /\ AfterRead(p, _read_file(file, TRUE), FALSE)
    /\ UNCHANGED <<storeVars, lock, observed>>

\* _read_file whose lock wait timed out: another process held the lock for the
\* whole wait
ReadTimeout(p) ==
    /\ proc[p].pc \in {"read", "update"}
    /\ lock \notin {0, p}
    /\ AfterRead(p, _read_file(file, FALSE), TRUE)
    /\ UNCHANGED <<storeVars, lock, observed>>

\* cmd_crawl_details between get_all and db.update: the detail crawl of the
\* selected record's url
FetchDetails(p, details) ==
    /\ proc[p].pc = "fetch"
    /\ IF details
       THEN proc' = [proc EXCEPT ![p].pc = "update", ![p].selected.detailed_info = TRUE]
       ELSE Finish(p, FALSE, FALSE, proc[p].timed_out, proc[p].write_count)
    /\ UNCHANGED <<storeVars, lock, observed>>

\* _write_file: `with lock` entered
WriteLock(p) ==
    /\ proc[p].pc = "write"
    /\ lock = 0
    /\ lock' = p
    /\ proc' = [proc EXCEPT ![p].pc = "tmp", ![p].pre = file.doc]
    /\ UNCHANGED <<storeVars, observed>>

\* _write_file: the lock wait timed out, False is returned
WriteTimeout(p) ==
    /\ proc[p].pc = "write"
    /\ lock \notin {0, p}
    /\ Finish(p, FALSE, FALSE, TRUE, proc[p].write_count)
    /\ UNCHANGED <<storeVars, lock, observed>>

\* mutant: the destination itself is opened for writing
open_in_place(f, t) == [file |-> Truncated, tmp |-> t]

\* open(temp_path, 'w'): the temporary file exists and is empty
open_temp(f, t) == [file |-> f, tmp |-> Truncated]

OpenTemp(p) ==
    /\ proc[p].pc = "tmp"
    /\ file' = open_temp(file, tmp).file
    /\ tmp' = open_temp(file, tmp).tmp
    /\ proc' = [proc EXCEPT ![p].pc = "dump"]
    /\ UNCHANGED <<cat, write_count, backups, backup_frequency, id_cache, call,
                   lock, observed>>

\* json.dump(data, f) and the close of the temporary file
Dump(p) ==
    /\ proc[p].pc = "dump"
    /\ tmp' = Document(proc[p].data)
    /\ proc' = [proc EXCEPT ![p].pc = "replace"]
    /\ UNCHANGED <<cat, file, write_count, backups, backup_frequency, id_cache, call,
                   lock, observed>>

\* temp_path.replace(file_path): the rename
Replace(p) ==
    /\ proc[p].pc = "replace"
    /\ file' = tmp
    /\ tmp' = NoFile
    /\ proc' = [proc EXCEPT ![p].pc = "unlock"]
    /\ UNCHANGED <<cat, write_count, backups, backup_frequency, id_cache, call,
                   lock, observed>>

\* _write_file: the with-block is left, True is returned; then what insert and
\* insert_many do after a successful write
Release(p) ==
    LET me == proc[p]
        count == CASE me.op = "insert" -> me.write_count + 1
                   [] me.op = "insert_many" -> me.write_count + Len(me.jobs)
                   [] OTHER -> me.write_count
    IN /\ me.pc = "unlock"
       /\ lock' = 0
       /\ Finish(p, TRUE, me.data # me.pre, me.timed_out, count)
       /\ IF me.op \in {"insert", "insert_many"} /\ backup_due(count, backup_frequency)
          THEN backups' \in _create_backup(backups, file)
          ELSE backups' = backups
       /\ UNCHANGED <<cat, file, tmp, write_count, backup_frequency, id_cache, call,
                      observed>>

\* the process dies inside the with-block: the OS drops its lock, whatever it
\* left on disk stays
Crash(p) ==
    /\ proc[p].pc \in {"tmp", "dump", "replace", "unlock"}
    /\ lock' = 0
    /\ proc' = [proc EXCEPT ![p].pc = "dead"]
    /\ UNCHANGED <<storeVars, observed>>

\* the content a reader finds is the one before or the one after the write in
\* progress
PreOrPost(f) ==
    \/ lock = 0
    \/ /\ lock # 0
       /\ f.exists /\ f.whole
       /\ f.doc \in {proc[lock].pre, proc[lock].data}

\* JobDatabase._load_json_file of the API: open and json.load, no lock taken
_load_json_file ==
    /\ observed' = [result |-> IF ~file.exists THEN "missing"
                                ELSE IF ~file.whole THEN "JSONDecodeError"
                                ELSE IF PreOrPost(file) THEN "document"
                                ELSE "other document",
                    mid_write |-> lock # 0 /\ tmp.exists /\ ~tmp.whole]
    /\ UNCHANGED <<storeVars, lock, proc>>

\* The category file as a first pipeline run left it; two processes that have
\* not called yet.
InitConc ==
    /\ cat = "jobs"
    /\ file \in {Document(process_batch(jobs, <<>>, {}).all_jobs) : jobs \in Batches}
    /\ tmp = NoFile
    /\ write_count = 0
    /\ backups = 0
    /\ backup_frequency = 1
    /\ id_cache = {}
    /\ call = Call("init", <<>>, NoStats, TRUE, FALSE, FALSE)
    /\ lock = 0
    /\ proc = [p \in Procs |-> IdleProc(0, 0, NoDone)]
    /\ observed = NotObserved
    /\ RefreshUnused
    /\ ExtUnused

NextConc ==
    \/ \E p \in Procs, op \in ConcOps, jobs \in ConcBatches \cup {<<>>}, arg \in Ids :
          StartCall(p, op, jobs, arg) /\ UNCHANGED <<refreshVars, extVars>>
    \/ \E p \in Procs : ReadFile(p) /\ UNCHANGED <<refreshVars, extVars>>
    \/ \E p \in Procs : ReadTimeout(p) /\ UNCHANGED <<refreshVars, extVars>>
    \/ \E p \in Procs, details \in BOOLEAN : FetchDetails(p, details) /\ UNCHANGED <<refreshVars, extVars>>
    \/ \E p \in Procs : WriteLock(p) /\ UNCHANGED <<refreshVars, extVars>>
    \/ \E p \in Procs : WriteTimeout(p) /\ UNCHANGED <<refreshVars, extVars>>
    \/ \E p \in Procs : OpenTemp(p) /\ UNCHANGED <<refreshVars, extVars>>
    \/ \E p \in Procs : Dump(p) /\ UNCHANGED <<refreshVars, extVars>>
    \/ \E p \in Procs : Replace(p) /\ UNCHANGED <<refreshVars, extVars>>
    \/ \E p \in Procs : Release(p) /\ UNCHANGED <<refreshVars, extVars>>
    \/ \E p \in Procs : Crash(p) /\ UNCHANGED <<refreshVars, extVars>>
    \/ _load_json_file /\ UNCHANGED <<refreshVars, extVars>>

SpecConc == InitConc /\ [][NextConc]_vars

\* ---------------------------------------------------- claims on SpecConc
\* process p renames its temporary file over the category file in this step
Renames(p) == proc[p].pc = "replace" /\ proc'[p].pc = "unlock"

\* neither process has called delete or clear_category
NormalOperation ==
    \A q \in Procs : {proc[q].op, proc[q].done.op} \cap {"delete", "clear_category"} = {}

\* C2: while no process calls delete or clear_category, no write removes a
\* stored record: every id in the category file before a rename is in the file
\* after it, also with two processes writing and with lock waits that time out.
C2_NoRecordLost ==
    [][\A p \in Procs :
          (Renames(p) /\ NormalOperation) => IdsOf(file.doc) \subseteq IdsOf(file'.doc)]_vars

\* the record of id `id` got its detailed_info, every other field of every
\* record is as it was
OnlyDetailsAdded(before, after, id) ==
    /\ Len(after) = Len(before)
    /\ \A i \in 1..Len(before) :
          \/ after[i] = before[i]
          \/ /\ before[i].id = id
             /\ after[i] = [before[i] EXCEPT !.detailed_info = TRUE]

\* all that process q has called so far is process_jobs
OnlyListingCrawl(q) ==
    /\ proc[q].op \in {"none", "process_jobs"}
    /\ proc[q].done.op \in {"none", "process_jobs"}

\* C6: the write of a detail fetch changes the detailed_info of the target
\* record and nothing else in the category file, also when a listing crawl of
\* the category ran between the fetch's read and its write.
C6_OnlyDetailsChange ==
    [][\A p \in Procs :
          (/\ Renames(p)
           /\ proc[p].op = "cmd_crawl_details"
           /\ \A q \in Procs \ {p} : OnlyListingCrawl(q))
              => OnlyDetailsAdded(file.doc, file'.doc, proc[p].selected.id)]_vars

\* C8: the category file is a complete JSON document in every state: the
\* content before the write in progress until the rename, the new content
\* after it. A reader that takes no lock never finds a partial file, also
\* after a writer died between creating the temporary file and the rename.
C8_AtomicWrite ==
    /\ file.exists /\ file.whole
    /\ PreOrPost(file)
    /\ \A p \in Procs :
          /\ proc[p].pc \in {"tmp", "dump", "replace"} => file.doc = proc[p].pre
          /\ proc[p].pc = "unlock" => file.doc = proc[p].data
    /\ observed.result \in {"none", "document"}

\* C8: a reader read the file while a writer held the lock with a half-written
\* temporary file, and a writer has died before its rename.
C8_Witness ==
    /\ observed.result = "document"
    /\ observed.mid_write
    /\ \E p \in Procs : proc[p].pc = "dead"

\* C9: a mutating call of the Store one of whose lock waits timed out has
\* returned False and has left the category file as it was.
C9_TimeoutReturnsFalse ==
    \A p \in Procs :
        (/\ proc[p].done.timed_out
         /\ proc[p].done.op \in {"insert", "insert_many", "cmd_crawl_details", "delete",
                                 "clear_category"})
            => (~proc[p].done.ok /\ ~proc[p].done.changed)

\* ------------------------------- SpecRefresh: POST /refresh/now, /reset
\* trigger_refresh is a plain `def` route: the server runs each request on a
\* thread of its pool, and each accepted request starts a run_refresh thread.
\* A step is one read or one write of refresh_status, or the start of a thread.
Requests == 1..MaxRequests

\* trigger_refresh: `if refresh_status["in_progress"]: raise HTTPException(409)`
CheckInProgress(r) ==
    /\ handler[r] = "received"
    /\ handler' = [handler EXCEPT ![r] = IF refresh_status.in_progress THEN "409"
                                         ELSE "checked"]
    /\ UNCHANGED <<refresh_status, worker>>

\* trigger_refresh: thread.start() and the 200 response
StartThread(r) ==
    /\ handler[r] = "checked"
    /\ worker' = [worker EXCEPT ![r] = "started"]
    /\ handler' = [handler EXCEPT ![r] = "200"]
    /\ UNCHANGED refresh_status

\* run_refresh: the first statements of the try block, up to the call of
\* execute_all
SetInProgress(r) ==
    /\ worker[r] = "started"
    /\ refresh_status' = [in_progress |-> TRUE, status |-> "refreshing"]
    /\ worker' = [worker EXCEPT ![r] = "execute_all"]
    /\ UNCHANGED handler

\* run_refresh: execute_all returned (status completed) or raised (status error)
ExecuteAllEnds(r, raised) ==
    /\ worker[r] = "execute_all"
    /\ refresh_status' = [refresh_status EXCEPT
                             !.status = IF raised THEN "error" ELSE "completed"]
    /\ worker' = [worker EXCEPT ![r] = "finally"]
    /\ UNCHANGED handler

\* run_refresh: the finally block
ClearInProgress(r) ==
    /\ worker[r] = "finally"
    /\ refresh_status' = [refresh_status EXCEPT !.in_progress = FALSE]
    /\ worker' = [worker EXCEPT ![r] = "finished"]
    /\ UNCHANGED handler

\* POST /refresh/reset: 409 while in progress, else the dict is replaced
reset_refresh_status ==
    /\ ~refresh_status.in_progress
    /\ refresh_status' = [in_progress |-> FALSE, status |-> "idle"]
    /\ UNCHANGED <<handler, worker>>

InitRefresh ==
    /\ cat = "jobs"
    /\ file = Document(<<>>)
    /\ tmp = NoFile
    /\ write_count = 0
    /\ backups = 0
    /\ backup_frequency = 1
    /\ id_cache = {}
    /\ call = Call("init", <<>>, NoStats, TRUE, FALSE, FALSE)
    /\ ConcUnused
    /\ refresh_status = [in_progress |-> FALSE, status |-> "idle"]
    /\ handler = [r \in Requests |-> "received"]
    /\ worker = [r \in Requests |-> "none"]
    /\ ExtUnused

NextRefresh ==
    \/ \E r \in Requests : CheckInProgress(r) /\ UNCHANGED <<storeVars, concVars, extVars>>
    \/ \E r \in Requests : StartThread(r) /\ UNCHANGED <<storeVars, concVars, extVars>>
    \/ \E r \in Requests : SetInProgress(r) /\ UNCHANGED <<storeVars, concVars, extVars>>
    \/ \E r \in Requests, raised \in BOOLEAN :
          ExecuteAllEnds(r, raised) /\ UNCHANGED <<storeVars, concVars, extVars>>
    \/ \E r \in Requests : ClearInProgress(r) /\ UNCHANGED <<storeVars, concVars, extVars>>
    \/ reset_refresh_status /\ UNCHANGED <<storeVars, concVars, extVars>>

SpecRefresh == InitRefresh /\ [][NextRefresh]_vars

\* -------------------------------------------------- claims on SpecRefresh
\* C1: at most one run_refresh thread is executing execute_all at any time,
\* whatever the interleaving of the triggers: a trigger that arrives while a
\* refresh is in flight gets the 409 and starts no second run.
C1_AtMostOneRefresh ==
    Cardinality({r \in Requests : worker[r] = "execute_all"}) <= 1

\* --------------------------- SpecBackup: the backup files of one category
\* A backup file is named by the second it was made in, so the set of names is
\* a set of clock values and filename-sort order is the order of the numbers.
\* The store variables stand still in the specifications below that do not
\* work on a category file.
StoreUnused ==
    /\ cat = "jobs"
    /\ file = Document(<<>>)
    /\ tmp = NoFile
    /\ write_count = 0
    /\ backups = 0
    /\ backup_frequency = 1
    /\ id_cache = {}
    /\ call = Call("init", <<>>, NoStats, TRUE, FALSE, FALSE)

\* sorted(glob)[:-keep]: the names the slice selects for deletion. -0 is 0, so
\* with keep = 0 the slice is backups[:0], the empty list.
oldest_slice(names, keep) ==
    IF keep = 0 THEN {}
    ELSE {n \in names : Cardinality({m \in names : m > n}) >= keep}

\* _cleanup_old_backups on the directory listing `names`
names_to_unlink(names, keep) ==
    IF Cardinality(names) > keep THEN oldest_slice(names, keep) ELSE {}

\* _create_backup: shutil.copy2 to the name of the current second (an existing
\* file of that name is overwritten), then _cleanup_old_backups
create_backup ==
    /\ backup_dir.created < MaxCreated
    /\ LET copied == backup_dir.files \cup {backup_dir.now}
           unlinked == names_to_unlink(copied, backup_dir.max_backups)
       IN backup_dir' = [backup_dir EXCEPT !.files = copied \ unlinked,
                                           !.created = @ + 1,
                                           !.unlinked = unlinked]
    /\ UNCHANGED <<storeVars, concVars, refreshVars, manager, fetcher, detail, idgen,
                   runs, api>>

\* a second passes
Tick ==
    /\ backup_dir.now < MaxClock
    /\ backup_dir' = [backup_dir EXCEPT !.now = @ + 1]
    /\ UNCHANGED <<storeVars, concVars, refreshVars, manager, fetcher, detail, idgen,
                   runs, api>>

InitBackup ==
    /\ StoreUnused
    /\ ConcUnused
    /\ RefreshUnused
    /\ backup_dir \in [files : {{}}, now : {1}, created : {0}, unlinked : {{}},
                       max_backups : 0..MaxRetention]
    /\ manager = <<>> /\ fetcher = <<>> /\ detail = <<>> /\ idgen = <<>>
    /\ runs = <<>> /\ api = <<>>

NextBackup ==
    \/ create_backup
    \/ Tick

SpecBackup == InitBackup /\ [][NextBackup]_vars

\* C11 as claimed: once more than max_backups backups have been created,
\* exactly max_backups backup files remain after each creation, and every file
\* the cleanup removed is older than every file that remains.
C11_ExactlyMaxBackups ==
    backup_dir.created > backup_dir.max_backups =>
        /\ Cardinality(backup_dir.files) = backup_dir.max_backups
        /\ \A u \in backup_dir.unlinked, k \in backup_dir.files : u < k

\* ------------------- SpecManager: CrawlerManager.execute_all, portal by portal
\* The configuration is a list of portals, named by their position, each
\* enabled or not. The category file of this specification is crawl_history;
\* what the portal's batches do to the listing categories is Spec's subject,
\* here a crawl is its outcome: the number of new entries, or an exception.
PortalConfigs == [1..MaxPortals -> BOOLEAN]

\* get_enabled_portals: [p for p in portals if p.get('enabled', False)]
get_enabled_portals(portals) ==
    SelectSeq([i \in 1..MaxPortals |-> i], LAMBDA i : portals[i])

\* what crawling and processing one portal comes to
Outcomes == [raised : {FALSE}, new : 0..MaxNew] \cup {[raised |-> TRUE, new |-> 0]}

\* the CrawlerStats _execute_portal returns
portal_stats(portal, outcome) ==
    [portal_name |-> portal,
     status |-> IF outcome.raised THEN "failed" ELSE "success",
     new_entries |-> outcome.new,
     errors |-> IF outcome.raised THEN <<"error">> ELSE <<>>]

\* mutant: the except block stores no history
portal_history_success_only(portal, outcome) ==
    IF outcome.raised THEN <<>>
    ELSE <<[id |-> portal, portal_name |-> portal, status |-> "success",
            new_items |-> outcome.new, error_message |-> "none"]>>

\* the CrawlHistory records _execute_portal hands to process_crawl_history
portal_history(portal, outcome) ==
    IF outcome.raised
    THEN <<[id |-> portal, portal_name |-> portal, status |-> "failed",
            new_items |-> 0, error_message |-> "error"]>>
    ELSE <<[id |-> portal, portal_name |-> portal, status |-> "success",
            new_items |-> outcome.new, error_message |-> "none"]>>

\* mutant: the loop is left at the first failed portal
next_portal_break(i, enabled, stats) ==
    IF stats.status = "failed" THEN Len(enabled) + 1 ELSE i + 1

\* the for loop of execute_all: the index of the portal after the i-th
next_portal(i, enabled, stats) == i + 1

\* mutant: portals_crawled counts the statistics the manager has accumulated
run_summary_accumulated(m) ==
    [status |-> "completed",
     portals_crawled |-> Len(m.execution_stats),
     successful |-> m.successful,
     failed |-> m.failed,
     new_items |-> m.total_new_items,
     portal_stats |-> Len(m.execution_stats)]

\* the dictionary execute_all returns after the loop
run_summary(m) ==
    [status |-> "completed",
     portals_crawled |-> Len(m.enabled),
     successful |-> m.successful,
     failed |-> m.failed,
     new_items |-> m.total_new_items,
     portal_stats |-> Len(m.execution_stats)]

no_portals_summary ==
    [status |-> "no_portals", portals_crawled |-> 0, successful |-> 0, failed |-> 0,
     new_items |-> 0, portal_stats |-> 0]

managerRest == <<concVars, refreshVars, backup_dir, fetcher, detail, idgen, runs, api>>

\* execute_all up to the loop
execute_all_begin ==
    /\ manager.pc = "idle"
    /\ manager.runs_done < MaxRuns
    /\ LET enabled == get_enabled_portals(manager.portals)
       IN manager' = IF enabled = <<>>
                     THEN [manager EXCEPT !.summary = no_portals_summary,
                                          !.enabled = enabled, !.this_run = <<>>,
                                          !.runs_done = @ + 1]
                     ELSE [manager EXCEPT !.pc = "loop", !.i = 1, !.enabled = enabled,
                                          !.this_run = <<>>, !.successful = 0,
                                          !.failed = 0, !.total_new_items = 0]
    /\ UNCHANGED <<storeVars, managerRest>>

\* _execute_portal is entered for the i-th enabled portal: the crawl starts
_execute_portal_begin ==
    /\ manager.pc = "loop"
    /\ manager.i <= Len(manager.enabled)
    /\ manager' = [manager EXCEPT !.pc = "crawl",
                                  !.active = @ \cup {manager.enabled[manager.i]}]
    /\ UNCHANGED <<storeVars, managerRest>>

\* the rest of _execute_portal (the history is stored with db.insert) and the
\* loop body of execute_all around it
_execute_portal_end(outcome) ==
    /\ manager.pc = "crawl"
    /\ LET portal == manager.enabled[manager.i]
           stats == portal_stats(portal, outcome)
           history == portal_history(portal, outcome)
           count == write_count + Len(history)
       IN /\ file' = Document(history \o _read_file(file, TRUE))
          /\ write_count' = count
          /\ IF history # <<>> /\ backup_due(count, backup_frequency)
             THEN backups' \in _create_backup(backups, file')
             ELSE backups' = backups
          /\ call' = Call("insert", <<>>, NoStats, TRUE, history # <<>>,
                          history # <<>> /\ backup_due(count, backup_frequency))
          /\ manager' = [manager EXCEPT
                            !.pc = "loop",
                            !.i = next_portal(manager.i, manager.enabled, stats),
                            !.active = @ \ {portal},
                            !.this_run = Append(@, stats),
                            !.execution_stats = Append(@, stats),
                            !.successful = IF stats.status = "success" THEN @ + 1 ELSE @,
                            !.failed = IF stats.status = "success" THEN @ ELSE @ + 1,
                            !.total_new_items = IF stats.status = "success"
                                                THEN @ + stats.new_entries ELSE @]
    /\ UNCHANGED <<cat, tmp, backup_frequency, id_cache, managerRest>>

\* execute_all after the loop: the summary is returned
execute_all_end ==
    /\ manager.pc = "loop"
    /\ manager.i > Len(manager.enabled)
    /\ manager' = [manager EXCEPT !.pc = "idle", !.summary = run_summary(manager),
                                  !.runs_done = @ + 1]
    /\ UNCHANGED <<storeVars, managerRest>>

InitManager ==
    /\ cat = "crawl_history"
    /\ file = Document(<<>>)
    /\ tmp = NoFile
    /\ write_count = 0
    /\ backups = 0
    /\ backup_frequency = MaxWrites
    /\ id_cache = {}
    /\ call = Call("init", <<>>, NoStats, TRUE, FALSE, FALSE)
    /\ ConcUnused
    /\ RefreshUnused
    /\ manager \in [portals : PortalConfigs, pc : {"idle"}, i : {1}, enabled : {<<>>},
                    active : {{}}, this_run : {<<>>}, execution_stats : {<<>>},
                    successful : {0}, failed : {0}, total_new_items : {0},
                    summary : {no_portals_summary}, runs_done : {0}]
    /\ backup_dir = <<>> /\ fetcher = <<>> /\ detail = <<>> /\ idgen = <<>>
    /\ runs = <<>> /\ api = <<>>

NextManager ==
    \/ execute_all_begin
    \/ _execute_portal_begin
    \/ \E outcome \in Outcomes : _execute_portal_end(outcome)
    \/ execute_all_end

SpecManager == InitManager /\ [][NextManager]_vars

\* ---------------------------------------------------- claims on SpecManager
\* _execute_portal returns in this step
PortalReturns == manager.pc = "crawl" /\ manager'.pc = "loop"

\* C12: every execution of a portal writes exactly one CrawlHistory record to
\* crawl_history before _execute_portal returns: status success with the
\* portal's new-item count when nothing raised, status failed with the error
\* message when something did; the records stored before stay behind it.
C12_OneHistoryPerPortal ==
    [][PortalReturns =>
        LET stats == manager'.this_run[Len(manager'.this_run)]
        IN /\ Len(file'.doc) = Len(file.doc) + 1
           /\ Tail(file'.doc) = file.doc
           /\ file'.doc[1].portal_name = manager.enabled[manager.i]
           /\ file'.doc[1].status = stats.status
           /\ stats.status = "success" =>
                  /\ stats.errors = <<>>
                  /\ file'.doc[1].new_items = stats.new_entries
           /\ stats.status = "failed" =>
                  /\ stats.errors # <<>>
                  /\ file'.doc[1].error_message = stats.errors[1]]_vars

\* C12 witness: the history of a failed portal was stored in front of the
\* history of a successful one
C12_Witness ==
    /\ manager.pc = "loop"
    /\ Len(file.doc) >= 2
    /\ file.doc[1].status = "failed"
    /\ file.doc[2].status = "success"
    /\ file.doc[2].new_items = MaxNew

PortalNames(stats_list) == [k \in 1..Len(stats_list) |-> stats_list[k].portal_name]

\* C13: in a run of execute_all the portals executed so far are the enabled
\* ones in configuration order, each once, up to the place of the loop; at most
\* one portal is being crawled at any time; after the run all enabled portals
\* were executed, whichever of them failed.
C13_EachPortalOnceInOrder ==
    /\ Cardinality(manager.active) <= 1
    /\ manager.pc \in {"loop", "crawl"} =>
          /\ manager.enabled = get_enabled_portals(manager.portals)
          /\ manager.i <= Len(manager.enabled) + 1
          /\ PortalNames(manager.this_run) = SubSeq(manager.enabled, 1, manager.i - 1)
    /\ manager.pc = "crawl" => manager.active = {manager.enabled[manager.i]}
    /\ (manager.pc = "idle" /\ manager.runs_done > 0) =>
          PortalNames(manager.this_run) = get_enabled_portals(manager.portals)

\* C13 witness: a run has ended in which the first portal failed and a later
\* one was executed with success
C13_Witness ==
    /\ manager.pc = "idle"
    /\ manager.runs_done > 0
    /\ Len(manager.this_run) = MaxPortals
    /\ manager.this_run[1].status = "failed"
    /\ manager.this_run[MaxPortals].status = "success"

RECURSIVE SumNewOfSuccess(_)
SumNewOfSuccess(stats_list) ==
    IF stats_list = <<>> THEN 0
    ELSE (IF Head(stats_list).status = "success" THEN Head(stats_list).new_entries ELSE 0)
         + SumNewOfSuccess(Tail(stats_list))

fetch_max_retries == 3

fetch_delay == 2

fetch_backoff == 2

\* how one session.get / raise_for_status ends: a page, requests.Timeout, another
\* requests.RequestException (transport error, HTTP error status), or an
\* exception that is no RequestException
AttemptOutcomes == {"page", "Timeout", "RequestException", "other exception"}

\* the undecorated fetch_page: what it returns or raises, and what it records
fetch_page_body(outcome, stats) ==
    CASE outcome = "page" ->
           [returns |-> "html", raises |-> FALSE,
            stats |-> [stats EXCEPT !.pages_crawled = @ + 1]]
      [] outcome \in {"Timeout", "RequestException"} ->
           [returns |-> "None", raises |-> FALSE,
            stats |-> [stats EXCEPT !.errors = @ + 1]]
      [] OTHER ->
           [returns |-> "nothing", raises |-> TRUE, stats |-> stats]

fetchRest == <<storeVars, concVars, refreshVars, backup_dir, manager, detail, idgen,
               runs, api>>

\* a caller (crawl, a detail crawl) calls self.fetch_page(url): the wrapper
\* starts with attempt 0 and current_delay = delay
fetch_page_call ==
    /\ fetcher.pc \in {"idle", "returned", "raised"}
    /\ fetcher.fetches < MaxFetches
    /\ fetcher' = [fetcher EXCEPT !.pc = "attempt", !.attempt = 0, !.attempts_made = 0,
                                  !.current_delay = fetch_delay, !.slept = <<>>,
                                  !.result = "nothing", !.last = "none",
                                  !.fetches = @ + 1]
    /\ UNCHANGED fetchRest

\* one pass of the wrapper's loop: func is called; its return value is
\* returned, its exception leads to the sleep and the next pass, or is raised
\* when attempt = max_retries
wrapper_attempt(outcome) ==
    /\ fetcher.pc = "attempt"
    /\ LET r == fetch_page_body(outcome, fetcher.stats)
           made == [fetcher EXCEPT !.stats = r.stats, !.attempts_made = @ + 1,
                                   !.last = outcome]
       IN fetcher' =
            IF ~r.raises
            THEN [made EXCEPT !.pc = "returned", !.result = r.returns]
            ELSE IF fetcher.attempt < fetch_max_retries
            THEN [made EXCEPT !.attempt = @ + 1,
                              !.slept = Append(@, fetcher.current_delay),
                              !.current_delay = @ * fetch_backoff]
            ELSE [made EXCEPT !.pc = "raised"]
    /\ UNCHANGED fetchRest

InitFetch ==
    /\ StoreUnused
    /\ ConcUnused
    /\ RefreshUnused
    /\ fetcher = [pc |-> "idle", attempt |-> 0, attempts_made |-> 0,
                  current_delay |-> fetch_delay, slept |-> <<>>, result |-> "nothing",
                  last |-> "none", fetches |-> 0,
                  stats |-> [pages_crawled |-> 0, errors |-> 0]]
    /\ backup_dir = <<>> /\ manager = <<>> /\ detail = <<>> /\ idgen = <<>>
    /\ runs = <<>> /\ api = <<>>

NextFetch ==
    \/ fetch_page_call
    \/ \E outcome \in AttemptOutcomes : wrapper_attempt(outcome)

SpecFetch == InitFetch /\ [][NextFetch]_vars

\* C15 as claimed: a fetch whose attempt ended in a timeout or a transport
\* error is retried; when fetch_page has returned after such an attempt, it
\* returned None, max_retries retries were made before, slept for with delays
\* growing by the backoff factor, and the failure is in the crawler's statistics.
C15_RetriedBeforeNone ==
    (fetcher.pc = "returned" /\ fetcher.last \in {"Timeout", "RequestException"}) =>
        /\ fetcher.result = "None"
        /\ fetcher.stats.errors >= 1
        /\ fetcher.attempts_made = fetch_max_retries + 1
        /\ Len(fetcher.slept) = fetch_max_retries
        /\ \A k \in 1..(Len(fetcher.slept) - 1) :
               fetcher.slept[k + 1] = fetcher.slept[k] * fetch_backoff

\* ------------------ SpecValidate: process_* on batches with invalid entries
\* One entry for each way of failing the validators, beside the valid ones.
ValidationEntries ==
    [id : Ids, title : {"T"}, url : {"https://portal/x"}]
    \cup {[id |-> NoId, title |-> "T", url |-> "https://portal/x"],
          [id |-> 1, title |-> "", url |-> "https://portal/x"],
          [id |-> 1, title |-> "T", url |-> ""],
          [id |-> 1, title |-> "T", url |-> "ftp://portal/x"]}

ValidationBatches == SeqsUpTo(ValidationEntries, MaxBatch)

InitValidate ==
    /\ cat \in ListingCategories \cup {"notifications"}
    /\ file = Document(<<>>)
    /\ tmp = NoFile
    /\ write_count = 0
    /\ backups = 0
    /\ backup_frequency = MaxWrites
    /\ id_cache = {}
    /\ call = Call("init", <<>>, NoStats, TRUE, FALSE, FALSE)
    /\ ConcUnused
    /\ RefreshUnused
    /\ ExtUnused

NextValidate ==
    \/ \E jobs \in ValidationBatches :
          process_jobs(jobs) /\ UNCHANGED <<concVars, refreshVars, extVars>>
    \/ \E results \in ValidationBatches :
          process_results(results) /\ UNCHANGED <<concVars, refreshVars, extVars>>
    \/ \E cards \in ValidationBatches :
          process_admit_cards(cards) /\ UNCHANGED <<concVars, refreshVars, extVars>>
    \/ \E notifications \in ValidationBatches :
          process_notifications(notifications) /\ UNCHANGED <<concVars, refreshVars, extVars>>

SpecValidate == InitValidate /\ [][NextValidate]_vars

\* an entry that is missing its id, title or url, or whose url has no
\* http(s) scheme
FailsValidation(e) ==
    \/ e.id = NoId
    \/ e.title = ""
    \/ e.url = ""
    \/ e.url \notin {"https://portal/x", "http://portal/x"}

Passing(jobs) == SelectSeq(jobs, LAMBDA e : ~FailsValidation(e))

AllProcessOps == ProcessOps \cup {"process_notifications"}

\* C16: a process_* call on a batch with entries failing validation returns
\* statistics with total = the size of the batch and new + duplicates = the
\* number of passing entries; the file grows by no more than the passing
\* entries, its records in front of the old ones are the passing entries that
\* were written (all of them, in order, for a listing category), and it is
\* unchanged when no entry passes.
C16_InvalidDropped ==
    [][call'.op \in AllProcessOps =>
        LET passing == Passing(call'.jobs)
            written == Len(file'.doc) - Len(SelectSeq(file.doc,
                                LAMBDA r : r.id \notin IdsOf(passing) \/ call'.op \notin ProcessOps))
        IN /\ call'.stats.total = Len(call'.jobs)
           /\ call'.stats.new + call'.stats.duplicates = Len(passing)
           /\ passing = <<>> => file' = file
           /\ NoId \notin IdsOf(file'.doc)
           /\ call'.op \in ProcessOps =>
                 /\ written = Len(passing)
                 /\ \A k \in 1..Len(passing) : file'.doc[k].id = passing[k].id
           /\ call'.op = "process_notifications" =>
                 /\ written = call'.stats.new
                 /\ \A k \in 1..written : file'.doc[k].id \in IdsOf(passing)]_vars

\* C16 witness: a batch of an invalid entry followed by a valid one was handled,
\* and the valid one was written
C16_Witness ==
    /\ call.op \in ProcessOps
    /\ Len(call.jobs) = 2
    /\ FailsValidation(call.jobs[1])
    /\ ~FailsValidation(call.jobs[2])
    /\ call.stats.total = 2
    /\ call.stats.new + call.stats.duplicates = 1
    /\ call.wrote
    /\ file.doc[1].id = call.jobs[2].id

\* --------------------- SpecDetails: POST /api/details/fetch (fetch_details)
\* the three extraction strategies in the order of the handler's blocks
Strategies == <<"job", "result", "admit_card">>

ContentTypes == {"job", "result", "admit_card", "auto"}

\* what one crawl_*_details(url) meets: the fetch fails, the page has no text
\* in its content area (or no content area), the page has text, or fetching
\* or parsing raises
PageOutcomes == {"fetch failed", "no text", "text", "raises"}

\* the empty dict {}
NoDetails == [keys |-> {}, full_description |-> ""]

\* crawl_job_details / crawl_result_details / crawl_admit_card_details: {} when
\* fetch_page returns None, else the dict of _extract_*_details, which always
\* holds the key full_description, '' until text is extracted
crawl_details(page) ==
    IF page = "fetch failed"
    THEN NoDetails
    ELSE [keys |-> {"url", "full_description", "links", "tables", "sections"},
          full_description |-> IF page = "text" THEN "text" ELSE ""]

\* details and ("full_description" in details or "description" in details)
has_description_key(details) ==
    /\ details.keys # {}
    /\ ("full_description" \in details.keys \/ "description" \in details.keys)

detailRest == <<storeVars, concVars, refreshVars, backup_dir, manager, fetcher, idgen,
                runs, api>>

\* block k of fetch_details: entered when no details were found yet and the
\* content type is this strategy's or auto; an exception inside the block is
\* swallowed on auto (except in the last block) and becomes a 500 otherwise
strategy_block(k, page) ==
    /\ detail.pc = Strategies[k]
    /\ LET s == Strategies[k]
           entered == /\ (k = 1 \/ detail.details.keys = {})
                      /\ detail.content_type \in {s, "auto"}
           crawl_raises == page = "raises"
           d == IF crawl_raises THEN detail.details ELSE crawl_details(page)
           found == ~crawl_raises /\ has_description_key(d)
           block_raises == crawl_raises \/ (~found /\ detail.content_type = s)
           escapes == block_raises /\ (detail.content_type # "auto" \/ k = 3)
           next_pc == IF k < 3 THEN Strategies[k + 1] ELSE "respond"
       IN detail' =
            IF ~entered
            THEN [detail EXCEPT !.pc = next_pc]
            ELSE [detail EXCEPT
                    !.pc = IF escapes THEN "done" ELSE next_pc,
                    !.status = IF escapes THEN 500 ELSE @,
                    !.details = d,
                    !.content_type = IF found THEN s ELSE @,
                    !.tried = Append(@, s),
                    !.pages = Append(@, page)]
    /\ UNCHANGED detailRest

\* the end of fetch_details: 400 when details is still {}, else the response
\* with success=True, content_type and details
respond ==
    /\ detail.pc = "respond"
    /\ detail' = [detail EXCEPT !.pc = "done",
                                !.status = IF detail.details.keys = {} THEN 400 ELSE 200]
    /\ UNCHANGED detailRest

\* a request arrives: get_detail_crawler(), content_type = request.content_type,
\* details = {}
fetch_details(ct) ==
    /\ detail.pc \in {"idle", "done"}
    /\ detail.requests < MaxDetailRequests
    /\ detail' = [pc |-> "job", request_type |-> ct, content_type |-> ct,
                  details |-> NoDetails, tried |-> <<>>, pages |-> <<>>, status |-> 0,
                  requests |-> detail.requests + 1]
    /\ UNCHANGED detailRest

InitDetails ==
    /\ StoreUnused
    /\ ConcUnused
    /\ RefreshUnused
    /\ detail = [pc |-> "idle", request_type |-> "auto", content_type |-> "auto",
                 details |-> NoDetails, tried |-> <<>>, pages |-> <<>>, status |-> 0,
                 requests |-> 0]
    /\ backup_dir = <<>> /\ manager = <<>> /\ fetcher = <<>> /\ idgen = <<>>
    /\ runs = <<>> /\ api = <<>>

NextDetails ==
    \/ \E ct \in ContentTypes : fetch_details(ct)
    \/ \E k \in 1..3, page \in PageOutcomes : strategy_block(k, page)
    \/ respond

SpecDetails == InitDetails /\ [][NextDetails]_vars

\* the strategies whose crawl yielded a non-empty description in this request
YieldedText == {k \in 1..Len(detail.pages) : detail.pages[k] = "text"}

\* C17 as claimed: on auto the strategies are tried in the order job, result,
\* admit_card; the request succeeds exactly when one of the tried strategies
\* yielded a non-empty description, it stopped at the first such strategy and
\* reports its content type with that description; otherwise it fails.
C17_AutoFirstNonEmpty ==
    (detail.pc = "done" /\ detail.request_type = "auto") =>
        /\ Len(detail.tried) <= 3
        /\ \A k \in 1..Len(detail.tried) : detail.tried[k] = Strategies[k]
        /\ (detail.status = 200) <=> (YieldedText # {})
        /\ (detail.status = 200) =>
             /\ YieldedText = {Len(detail.tried)}
             /\ detail.content_type = detail.tried[Len(detail.tried)]
             /\ detail.details.full_description # ""

\* ------------------------------------- SpecId: models.generate_entry_id
\* Characters of the inputs: two cased ASCII letters in both cases, and the
\* letter U+00DF (sharp s), which str.lower() keeps and str.upper() writes as SS.
Letters == {"a", "A", "s", "S", "U+00DF"}

Titles == SeqsUpTo(Letters, MaxTitleLen)

OrgNames == SeqsUpTo(Letters, MaxOrgLen)

\* str.lower() on one character
lower_char(c) ==
    CASE c = "A" -> <<"a">>
      [] c = "S" -> <<"s">>
      [] OTHER -> <<c>>

\* str.upper() on one character
upper_char(c) ==
    CASE c = "a" -> <<"A">>
      [] c = "s" -> <<"S">>
      [] c = "U+00DF" -> <<"S", "S">>
      [] OTHER -> <<c>>

\* str.swapcase() on one character
swapcase_char(c) == IF lower_char(c) = <<c>> THEN upper_char(c) ELSE lower_char(c)

RECURSIVE MapChars(_, _)
MapChars(str, how) ==
    IF str = <<>>
    THEN <<>>
    ELSE (CASE how = "lower" -> lower_char(Head(str))
            [] how = "upper" -> upper_char(Head(str))
            [] OTHER -> swapcase_char(Head(str)))
         \o MapChars(Tail(str), how)

lower(str) == MapChars(str, "lower")

CaseChanges == {"lower", "upper", "swapcase"}

\* hashlib.md5(...).hexdigest(): the digests of different strings are different
md5(str) == <<"md5", str>>

\* unique_string = f"{title}_{organization}_{portal}".lower(), then its md5
generate_entry_id(title, organization, portal) ==
    md5(lower(title \o <<"_">> \o organization \o <<"_">> \o portal))

idRest == <<storeVars, concVars, refreshVars, backup_dir, manager, fetcher, detail,
            runs, api>>

\* a crawler builds an entry: entry_id = generate_entry_id(title, organization,
\* self.portal_name)
first_call ==
    /\ idgen.pc = "inputs"
    /\ idgen' = [idgen EXCEPT !.pc = "called",
                              !.id = generate_entry_id(idgen.title, idgen.organization,
                                                       idgen.portal)]
    /\ UNCHANGED idRest

\* the same inputs are given again (the next crawl of the same listing)
repeated_call ==
    /\ idgen.pc = "called"
    /\ idgen' = [idgen EXCEPT !.pc = "compared", !.changed = "nothing",
                              !.again = generate_entry_id(idgen.title, idgen.organization,
                                                          idgen.portal)]
    /\ UNCHANGED idRest

\* the listing shows one of the inputs in another letter case
case_changed_call(field, how) ==
    /\ idgen.pc = "called"
    /\ LET t == IF field = "title" THEN MapChars(idgen.title, how) ELSE idgen.title
           o == IF field = "organization" THEN MapChars(idgen.organization, how)
                ELSE idgen.organization
           q == IF field = "portal" THEN MapChars(idgen.portal, how) ELSE idgen.portal
       IN idgen' = [idgen EXCEPT !.pc = "compared", !.changed = field,
                                 !.again = generate_entry_id(t, o, q)]
    /\ UNCHANGED idRest

InitId ==
    /\ StoreUnused
    /\ ConcUnused
    /\ RefreshUnused
    /\ \E t \in Titles, o \in OrgNames, q \in OrgNames :
         idgen = [pc |-> "inputs", title |-> t, organization |-> o, portal |-> q,
                  id |-> <<>>, again |-> <<>>, changed |-> "nothing"]
    /\ backup_dir = <<>> /\ manager = <<>> /\ fetcher = <<>> /\ detail = <<>>
    /\ runs = <<>> /\ api = <<>>

NextId ==
    \/ first_call
    \/ repeated_call
    \/ \E field \in {"title", "organization", "portal"}, how \in CaseChanges :
         case_changed_call(field, how)

SpecId == InitId /\ [][NextId]_vars

\* C18 as claimed: a second call of generate_entry_id returns the id of the
\* first one, both when the inputs are the same and when one of them differs
\* from the first call's only in letter case.
C18_SameIdUnderCase ==
    idgen.pc = "compared" => idgen.again = idgen.id

\* ------------- SpecSeen: the occurrence counter over a sequence of batches
\* runs records, for every id, in how many of the batches handled so far it
\* appeared on an entry passing validation (seen) and on any entry (appeared).
seenRest == <<concVars, refreshVars, backup_dir, manager, fetcher, detail, idgen, api>>

AppearsIn(jobs, i) == \E k \in 1..Len(jobs) : jobs[k].id = i

AppearsValidIn(jobs, i) == \E k \in 1..Len(jobs) : jobs[k].id = i /\ ~FailsValidation(jobs[k])

\* one crawl run hands its batch of a listing category to the Processor
batch_processed(jobs) ==
    /\ runs.batches < MaxBatches
    /\ \/ process_jobs(jobs)
       \/ process_results(jobs)
       \/ process_admit_cards(jobs)
    /\ runs' = [batches |-> runs.batches + 1,
                seen |-> [i \in Ids |->
                            runs.seen[i] + IF AppearsValidIn(jobs, i) THEN 1 ELSE 0],
                appeared |-> [i \in Ids |->
                            runs.appeared[i] + IF AppearsIn(jobs, i) THEN 1 ELSE 0]]
    /\ UNCHANGED seenRest

InitSeen ==
    /\ cat \in ListingCategories
    /\ file = Document(<<>>)
    /\ tmp = NoFile
    /\ write_count = 0
    /\ backups = 0
    /\ backup_frequency = 1
    /\ id_cache = {}
    /\ call = Call("init", <<>>, NoStats, TRUE, FALSE, FALSE)
    /\ ConcUnused
    /\ RefreshUnused
    /\ runs = [batches |-> 0, seen |-> [i \in Ids |-> 0], appeared |-> [i \in Ids |-> 0]]
    /\ backup_dir = <<>> /\ manager = <<>> /\ fetcher = <<>> /\ detail = <<>>
    /\ idgen = <<>> /\ api = <<>>

NextSeen == \E jobs \in Batches : batch_processed(jobs)

SpecSeen == InitSeen /\ [][NextSeen]_vars

ApiPortals == {"sarkari_result", "freejobalert"}

JobTitles == {"Clerk", "Officer"}

\* Python's None
None == "None"

\* JobEntry(id=generate_entry_id(title, organization, self.portal_name),
\* portal_name=self.portal_name, title=title, ...) as crawl_jobs builds it; the
\* pair stands for the digest
JobEntry(title, portal) ==
    [id |-> <<title, portal>>, portal_name |-> portal, title |-> title,
     detailed_info |-> None]

\* dict.get(key), None when the key is missing
get(record, key) == IF key \in DOMAIN record THEN record[key] ELSE None

\* process_jobs on a batch of one entry: job.to_dict() with the flags, in
\* front of the records with another id
stored_jobs(job, existing_jobs) ==
    LET same == SelectSeq(existing_jobs, LAMBDA j : j.id = job.id)
        others == SelectSeq(existing_jobs, LAMBDA j : j.id # job.id)
        flags == IF same = <<>>
                 THEN [is_new |-> TRUE, is_duplicate |-> FALSE, times_seen |-> 1]
                 ELSE [is_new |-> FALSE, is_duplicate |-> TRUE,
                       times_seen |-> get_times_seen(same[Len(same)]) + 1]
    IN <<[id |-> job.id, portal_name |-> job.portal_name, title |-> job.title,
          detailed_info |-> job.detailed_info, is_new |-> flags.is_new,
          is_duplicate |-> flags.is_duplicate, times_seen |-> flags.times_seen]>>
       \o others

\* str.lower() on the titles and keywords of the model
lower_word(w) ==
    CASE w \in {"Clerk", "CLERK", "clerk"} -> "clerk"
      [] w \in {"Officer", "officer"} -> "officer"
      [] OTHER -> w

Keywords == {None, "CLERK", "officer"}

\* the filters of search_jobs on one record; the date filters are off
\* (start_date = end_date = None)
passes_filters(job, keyword, portal, details_only) ==
    /\ keyword # None => lower_word(keyword) = lower_word(get(job, "title"))
    /\ ~(portal # None /\ get(job, "portal") # portal)
    /\ ~(details_only /\ get(job, "detailed_info") = None)

Min(a, b) == IF a < b THEN a ELSE b

\* filtered[start:end] with start = (page - 1) * limit and end = start + limit
paginated(filtered, page, limit) ==
    SubSeq(filtered, (page - 1) * limit + 1, Min(page * limit, Len(filtered)))

search(jobs, keyword, portal, details_only, page, limit) ==
    LET filtered == SelectSeq(jobs, LAMBDA j : passes_filters(j, keyword, portal, details_only))
    IN [items |-> paginated(filtered, page, limit), total |-> Len(filtered)]

apiRest == <<storeVars, concVars, refreshVars, backup_dir, manager, fetcher, detail,
             idgen, runs>>

\* a crawl of one portal finds a job and the Processor stores it
pipeline_stores(title, portal) ==
    /\ api.stored < MaxStores
    /\ LET all_jobs == stored_jobs(JobEntry(title, portal), api.jobs_file)
       IN /\ SeenWithinBound(all_jobs)
          /\ api' = [jobs_file |-> all_jobs,
                     stored |-> api.stored + 1,
                     last |-> [op |-> "process_jobs", keyword |-> None, portal |-> portal,
                               details_only |-> FALSE, page |-> 1, limit |-> 1,
                               status |-> 0, total |-> 0, items |-> <<>>]]
    /\ UNCHANGED apiRest

\* ApiDatabase.search_jobs as the search route calls it
search_jobs(keyword, portal, details_only, page, limit) ==
    /\ LET r == search(api.jobs_file, keyword, portal, details_only, page, limit)
       IN api' = [api EXCEPT !.last =
                    [op |-> "search_jobs", keyword |-> keyword, portal |-> portal,
                     details_only |-> details_only, page |-> page, limit |-> limit,
                     status |-> 200, total |-> r.total, items |-> r.items]]
    /\ UNCHANGED apiRest

\* GET /filter/by-portal/{portal}: search_jobs(portal=portal), 404 when total is 0
get_jobs_by_portal(portal, page, limit) ==
    /\ LET r == search(api.jobs_file, None, portal, FALSE, page, limit)
       IN api' = [api EXCEPT !.last =
                    [op |-> "get_jobs_by_portal", keyword |-> None, portal |-> portal,
                     details_only |-> FALSE, page |-> page, limit |-> limit,
                     status |-> IF r.total = 0 THEN 404 ELSE 200,
                     total |-> r.total,
                     items |-> IF r.total = 0 THEN <<>> ELSE r.items]]
    /\ UNCHANGED apiRest

InitApi ==
    /\ StoreUnused
    /\ ConcUnused
    /\ RefreshUnused
    /\ api = [jobs_file |-> <<>>,
              stored |-> 0,
              last |-> [op |-> "init", keyword |-> None, portal |-> None,
                        details_only |-> FALSE, page |-> 1, limit |-> 1,
                        status |-> 0, total |-> 0, items |-> <<>>]]
    /\ backup_dir = <<>> /\ manager = <<>> /\ fetcher = <<>> /\ detail = <<>>
    /\ idgen = <<>> /\ runs = <<>>

NextApi ==
    \/ \E title \in JobTitles, portal \in ApiPortals : pipeline_stores(title, portal)
    \/ \E keyword \in Keywords, portal \in ApiPortals \cup {None}, details_only \in BOOLEAN,
          page \in 1..MaxPage, limit \in 1..MaxLimit :
          search_jobs(keyword, portal, details_only, page, limit)
    \/ \E portal \in ApiPortals, page \in 1..MaxPage, limit \in 1..MaxLimit :
          get_jobs_by_portal(portal, page, limit)

SpecApi == InitApi /\ [][NextApi]_vars

\* the stored records that the pipeline created for a portal
CreatedFor(portal) == SelectSeq(api.jobs_file, LAMBDA j : j.portal_name = portal)

\* C20 as claimed: a search or a by-portal listing whose only filter is the
\* portal P returns the stored records created for P (their number as total,
\* the requested page of them as items), and the by-portal listing is no 404
\* while there are such records.
C20_PortalFilterFindsRecords ==
    (/\ api.last.op \in {"search_jobs", "get_jobs_by_portal"}
     /\ api.last.portal # None
     /\ api.last.keyword = None
     /\ ~api.last.details_only) =>
        /\ api.last.total = Len(CreatedFor(api.last.portal))
        /\ CreatedFor(api.last.portal) # <<>> => api.last.status = 200
        /\ api.last.status = 200 =>
             api.last.items = paginated(CreatedFor(api.last.portal), api.last.page,
                                        api.last.limit)

\* --------------------- SpecTable: DetailCrawler._extract_table_data
\* A cell is a th or a td with its text; a row is its cells in source order.
\* A table is its tr elements in document order; the first one is the header
\* row, which stands inside a thead element or directly in the table.
CellTexts == {"a", "b"}

Cells == [tag : {"th", "td"}, text : CellTexts]

DataRows == {r \in SeqsUpTo(Cells, MaxCells) : r # <<>>}

HeaderRows == {<<[tag |-> t1, text |-> "Post"], [tag |-> t2, text |-> "Vacancies"]>> :
                  t1 \in {"th", "td"}, t2 \in {"th", "td"}}

Tables == [in_thead : BOOLEAN, header_row : HeaderRows, data_rows : SeqsUpTo(DataRows, MaxRows)]

\* row.find('th')
find_th(row) == \E i \in 1..Len(row) : row[i].tag = "th"

cell_texts(row) == [i \in 1..Len(row) |-> row[i].text]

\* headers: the cell texts of the thead; else those of the first row when it
\* holds a th; else []
table_headers(table) ==
    IF table.in_thead THEN cell_texts(table.header_row)
    ELSE IF find_th(table.header_row) THEN cell_texts(table.header_row)
    ELSE <<>>

\* column_0, column_1, ... (f'column_{i}')
column_key(i) == <<"column", i>>

\* the dict built for one row: a sequence of <<key, text>> pairs
row_dict(headers, cells) ==
    IF headers # <<>> /\ Len(cells) = Len(headers)
    THEN [i \in 1..Len(cells) |-> <<headers[i], cells[i].text>>]
    ELSE [i \in 1..Len(cells) |-> <<column_key(i - 1), cells[i].text>>]

RECURSIVE extract_rows(_, _)
extract_rows(rows, headers) ==
    IF rows = <<>> THEN <<>>
    ELSE IF headers # <<>> /\ find_th(Head(rows))
    THEN extract_rows(Tail(rows), headers)
    ELSE <<row_dict(headers, Head(rows))>> \o extract_rows(Tail(rows), headers)

\* rows = table.find_all('tr'): the header row and the data rows
_extract_table_data(table) ==
    extract_rows(<<table.header_row>> \o table.data_rows, table_headers(table))

tableRest == <<storeVars, concVars, refreshVars, backup_dir, manager, fetcher, idgen,
               runs, api>>

\* _extract_job_details calls _extract_table_data for a table of the page
extract_table ==
    /\ detail.pc = "table"
    /\ detail' = [detail EXCEPT !.pc = "extracted",
                                !.table_data = _extract_table_data(detail.table)]
    /\ UNCHANGED tableRest

InitTable ==
    /\ StoreUnused
    /\ ConcUnused
    /\ RefreshUnused
    /\ \E table \in Tables : detail = [pc |-> "table", table |-> table, table_data |-> <<>>]
    /\ backup_dir = <<>> /\ manager = <<>> /\ fetcher = <<>> /\ idgen = <<>>
    /\ runs = <<>> /\ api = <<>>

NextTable == extract_table

SpecTable == InitTable /\ [][NextTable]_vars

\* the record the claim gives a data row: keyed by the header texts, or by
\* position when the numbers of cells and headers differ
ExpectedRecord(header_row, cells) ==
    IF Len(cells) = Len(header_row)
    THEN [i \in 1..Len(cells) |-> <<header_row[i].text, cells[i].text>>]
    ELSE [i \in 1..Len(cells) |-> <<column_key(i - 1), cells[i].text>>]

\* C21 as claimed: for a table with a header row (in a thead, or a first row
\* with a th cell) the extracted records are those of the data rows, one per
\* row and in source order, keyed by the header texts or, when the cell count
\* differs, by position; the header row yields no record.
C21_OneRecordPerDataRow ==
    (/\ detail.pc = "extracted"
     /\ (detail.table.in_thead \/ find_th(detail.table.header_row))) =>
        /\ Len(detail.table_data) = Len(detail.table.data_rows)
        /\ \A k \in 1..Len(detail.table.data_rows) :
               detail.table_data[k] =
                   ExpectedRecord(detail.table.header_row, detail.table.data_rows[k])

\* ------------- SpecLinks: the link lists of the three _extract_*_details
\* An anchor text with its length and the terms (of the keyword and the noise
\* lists, and of the claim) that its lower-cased form contains.
AnchorTexts ==
    {[s |-> "", len |-> 0, terms |-> {}],
     [s |-> "x", len |-> 1, terms |-> {}],
     [s |-> "Home", len |-> 4, terms |-> {"home"}],
     [s |-> "Back", len |-> 4, terms |-> {"back"}],
     [s |-> "Next Result", len |-> 11, terms |-> {"next", "result"}],
     [s |-> "Admit Card", len |-> 10, terms |-> {"admit card"}],
     [s |-> "Apply Online", len |-> 12, terms |-> {}]}

\* An href with the keywords its lower-cased form contains
Hrefs ==
    {[url |-> "", terms |-> {}],
     [url |-> "#top", terms |-> {}],
     [url |-> "javascript:void(0)", terms |-> {}],
     [url |-> "/notice.pdf", terms |-> {"pdf"}],
     [url |-> "/apply", terms |-> {}]}

Anchors == [text : AnchorTexts, href : Hrefs]

\* link_url.startswith('#') or link_url.startswith('javascript:')
pseudo_href(href) == href.url \in {"#top", "javascript:void(0)"}

\* any(skip in link_text.lower() for skip in ['home', 'menu', 'search',
\* 'back to', 'previous', 'next'])
skip_terms == {"home", "menu", "search", "back to", "previous", "next"}

result_text_keywords ==
    {"result", "download", "pdf", "merit", "list", "cutoff", "answer key", "click here",
     "here", "view", "check", "score", "marks"}

result_href_keywords ==
    {"pdf", "download", "wp-content/uploads", "drive.google.com", "docs.google.com",
     "/result", "/results", "scorecard", "mark", "merit", "list", "cutoff"}

admit_text_keywords ==
    {"admit card", "download", "hall ticket", "pdf", "call letter", "click here", "here",
     "view", "check"}

admit_href_keywords ==
    {"pdf", "download", "wp-content/uploads", "drive.google.com", "docs.google.com",
     "admit", "hall", "ticket", "call-letter"}

UrlsOf(links) == {links[i].href.url : i \in 1..Len(links)}

\* the general anchor loop of _extract_job_details and _extract_result_details
RECURSIVE general_links(_, _, _)
general_links(anchors, seen, acc) ==
    IF anchors = <<>> THEN acc
    ELSE LET a == Head(anchors)
             skip == \/ a.href.url = "" \/ a.href.url \in seen
                     \/ a.text.s = "" \/ a.text.len < 2
                     \/ pseudo_href(a.href)
                     \/ a.text.terms \cap skip_terms # {}
         IN IF skip THEN general_links(Tail(anchors), seen, acc)
            ELSE general_links(Tail(anchors), seen \cup {a.href.url}, Append(acc, a))

\* the keyword loop that fills result_links / download_links
RECURSIVE keyword_links(_, _, _, _, _)
keyword_links(anchors, seen, acc, text_keywords, href_keywords) ==
    IF anchors = <<>> THEN acc
    ELSE LET a == Head(anchors)
             skip == a.href.url = "" \/ a.href.url \in seen
             is_match == \/ a.text.terms \cap text_keywords # {}
                         \/ a.href.terms \cap href_keywords # {}
         IN IF skip \/ ~is_match
            THEN keyword_links(Tail(anchors), seen, acc, text_keywords, href_keywords)
            ELSE keyword_links(Tail(anchors), seen \cup {a.href.url}, Append(acc, a),
                               text_keywords, href_keywords)

\* the general anchor loop of _extract_admit_card_details
RECURSIVE admit_general_links(_, _, _)
admit_general_links(anchors, seen, acc) ==
    IF anchors = <<>> THEN acc
    ELSE LET a == Head(anchors)
             keep == /\ a.href.url # "" /\ a.text.s # "" /\ a.href.url \notin seen
                     /\ ~pseudo_href(a.href)
         IN IF keep
            THEN admit_general_links(Tail(anchors), seen \cup {a.href.url}, Append(acc, a))
            ELSE admit_general_links(Tail(anchors), seen, acc)

\* combined[link['url']] = link over the list, then list(combined.values())
combined_links(links) ==
    LET firsts == SelectSeq([i \in 1..Len(links) |-> i],
                            LAMBDA i : \A j \in 1..(i - 1) : links[j].href.url # links[i].href.url)
        last(url) == CHOOSE i \in 1..Len(links) :
                        /\ links[i].href.url = url
                        /\ \A j \in (i + 1)..Len(links) : links[j].href.url # url
    IN [k \in 1..Len(firsts) |-> links[last(links[firsts[k]].href.url)]]

NoLinks == [important_links |-> <<>>, result_links |-> <<>>, download_links |-> <<>>,
            links |-> <<>>]

linksRest == <<storeVars, concVars, refreshVars, backup_dir, manager, fetcher, idgen,
               runs, api>>

_extract_job_details ==
    /\ detail.pc = "page"
    /\ LET important == general_links(detail.anchors, {}, <<>>)
       IN detail' = [detail EXCEPT !.pc = "job",
                        !.details = [NoLinks EXCEPT !.important_links = important,
                                                    !.links = important]]
    /\ UNCHANGED linksRest

_extract_result_details ==
    /\ detail.pc = "page"
    /\ LET results == keyword_links(detail.anchors, {}, <<>>, result_text_keywords,
                                    result_href_keywords)
           important == general_links(detail.anchors, UrlsOf(results), <<>>)
       IN detail' = [detail EXCEPT !.pc = "result",
                        !.details = [NoLinks EXCEPT !.result_links = results,
                                                    !.important_links = important,
                                                    !.links = combined_links(results \o important)]]
    /\ UNCHANGED linksRest

_extract_admit_card_details ==
    /\ detail.pc = "page"
    /\ LET downloads == keyword_links(detail.anchors, {}, <<>>, admit_text_keywords,
                                      admit_href_keywords)
           important == admit_general_links(detail.anchors, UrlsOf(downloads), <<>>)
       IN detail' = [detail EXCEPT !.pc = "admit_card",
                        !.details = [NoLinks EXCEPT !.download_links = downloads,
                                                    !.important_links = important,
                                                    !.links = combined_links(downloads \o important)]]
    /\ UNCHANGED linksRest

InitLinks ==
    /\ StoreUnused
    /\ ConcUnused
    /\ RefreshUnused
    /\ \E anchors \in SeqsUpTo(Anchors, MaxAnchors) :
         detail = [pc |-> "page", anchors |-> anchors, details |-> NoLinks]
    /\ backup_dir = <<>> /\ manager = <<>> /\ fetcher = <<>> /\ idgen = <<>>
    /\ runs = <<>> /\ api = <<>>

NextLinks ==
    \/ _extract_job_details
    \/ _extract_result_details
    \/ _extract_admit_card_details

SpecLinks == InitLinks /\ [][NextLinks]_vars

\* the navigation noise terms as the claim lists them
NoiseTerms == {"home", "menu", "search", "back", "next", "previous"}

CleanLink(a) ==
    /\ ~pseudo_href(a.href)
    /\ a.text.len >= 2
    /\ a.text.terms \cap NoiseTerms = {}

AllClean(links) == \A i \in 1..Len(links) : CleanLink(links[i])

\* C22 as claimed: none of the link lists of an extraction holds an anchor
\* with a '#' or javascript: href, a text shorter than 2 characters, or a text
\* containing a navigation noise term.
C22_NoNoiseLinks ==
    /\ AllClean(detail.details.important_links)
    /\ AllClean(detail.details.result_links)
    /\ AllClean(detail.details.download_links)
    /\ AllClean(detail.details.links)

\* ------------ SpecSections: DetailCrawler._extract_sections_by_headings
\* The selected region as the children of one parent, in source order: h2 and
\* strong elements, p elements, and bare text between elements (a string, which
\* find_next_siblings() does not return). A text is given with its length.
NodeTexts ==
    {[s |-> "", len |-> 0], [s |-> "ab", len |-> 2], [s |-> "Fee", len |-> 3],
     [s |-> "Dates", len |-> 5]}

Nodes == [name : {"h2", "strong", "p", "string"}, text : NodeTexts]

Regions == SeqsUpTo(Nodes, MaxNodes)

\* article.find_all(['h1', ..., 'h6', 'strong', 'b'])
is_heading(node) == node.name \in {"h2", "strong"}

\* mutant: collecting stops at a strong element as well
is_heading_level_or_bold(node) == node.name \in {"h2", "strong"}

\* sibling.name in ['h1', ..., 'h6']
is_heading_level(node) == node.name = "h2"

\* the loop over heading.find_next_siblings(): the texts of the elements up to
\* the next heading-level element, empty texts left out
RECURSIVE content_parts(_)
content_parts(siblings) ==
    IF siblings = <<>> THEN <<>>
    ELSE IF Head(siblings).name = "string" THEN content_parts(Tail(siblings))
    ELSE IF is_heading_level(Head(siblings)) THEN <<>>
    ELSE IF Head(siblings).text.s = "" THEN content_parts(Tail(siblings))
    ELSE <<Head(siblings).text.s>> \o content_parts(Tail(siblings))

\* the loop over the headings from position i on; sections maps a heading text
\* to its content parts ('\n'.join(content_parts) keeps them in order)
RECURSIVE sections_from(_, _, _)
sections_from(article, i, sections) ==
    IF i > Len(article) THEN sections
    ELSE LET heading == article[i]
             parts == content_parts(SubSeq(article, i + 1, Len(article)))
         IN IF ~is_heading(heading) \/ heading.text.len < 3 \/ parts = <<>>
            THEN sections_from(article, i + 1, sections)
            ELSE sections_from(article, i + 1,
                    [k \in DOMAIN sections \cup {heading.text.s} |->
                        IF k = heading.text.s THEN parts ELSE sections[k]])

_extract_sections_by_headings(article) == sections_from(article, 1, <<>>)

sectionsRest == <<storeVars, concVars, refreshVars, backup_dir, manager, fetcher, idgen,
                  runs, api>>

extract_sections ==
    /\ detail.pc = "region"
    /\ detail' = [detail EXCEPT !.pc = "extracted",
                                !.sections = _extract_sections_by_headings(detail.article)]
    /\ UNCHANGED sectionsRest

InitSections ==
    /\ StoreUnused
    /\ ConcUnused
    /\ RefreshUnused
    /\ \E article \in Regions :
         detail = [pc |-> "region", article |-> article, sections |-> <<>>]
    /\ backup_dir = <<>> /\ manager = <<>> /\ fetcher = <<>> /\ idgen = <<>>
    /\ runs = <<>> /\ api = <<>>

NextSections == extract_sections

SpecSections == InitSections /\ [][NextSections]_vars

\* the texts of the element siblings that follow position i, up to and not
\* including the next h1-h6 element
RECURSIVE FollowingText(_, _)
FollowingText(article, i) ==
    IF i >= Len(article) THEN <<>>
    ELSE LET next == article[i + 1]
         IN IF next.name = "h2" THEN <<>>
            ELSE IF next.name = "string" \/ next.text.s = "" THEN FollowingText(article, i + 1)
            ELSE <<next.text.s>> \o FollowingText(article, i + 1)

\* the positions of the heading elements with a text of 3 or more characters
\* and following sibling text
SectionHeadings(article) ==
    {i \in 1..Len(article) :
        /\ article[i].name \in {"h2", "strong"}
        /\ article[i].text.len >= 3
        /\ FollowingText(article, i) # <<>>}

C24_UniqueIds ==
    \A i, j \in 1..Len(file.doc) : i # j => file.doc[i].id # file.doc[j].id

\* ------------------ SpecWriteFail: process_* when _write_file can fail
\* _write_file returns False when the lock wait times out or the dump or the
\* replace raises; write_ok is that return value. The Processor is the only
\* writer of the Store.
process_listing_io(op, jobs, write_ok) ==
    IF jobs = <<>>
    THEN /\ call' = Call(op, jobs, NoStats, TRUE, FALSE, FALSE)
         /\ UNCHANGED <<cat, file, tmp, write_count, backups, backup_frequency, id_cache>>
    ELSE LET existing == _read_file(file, TRUE)
             r == process_batch(jobs, existing, id_cache)
         IN /\ SeenWithinBound(r.all_jobs)
            /\ file' = IF r.writes /\ write_ok THEN Document(r.all_jobs) ELSE file
            /\ id_cache' = r.id_cache
            /\ call' = Call(op, jobs, r.stats, TRUE, r.writes /\ write_ok, FALSE)
            /\ UNCHANGED <<cat, tmp, write_count, backups, backup_frequency>>

\* process_notifications with insert_many returning write_ok
process_notifications_io(notifications, write_ok) ==
    /\ cat = "notifications"
    /\ IF notifications = <<>>
       THEN /\ call' = Call("process_notifications", notifications, NoStats, TRUE, FALSE, FALSE)
            /\ UNCHANGED <<cat, file, tmp, write_count, backups, backup_frequency, id_cache>>
       ELSE LET acc == notification_loop(notifications,
                           [new_notifications |-> <<>>, duplicate_count |-> 0,
                            id_cache |-> id_cache])
                new == acc.new_notifications
                stats == [total |-> Len(notifications), new |-> Len(new),
                          duplicates |-> acc.duplicate_count, updated |-> 0]
                success == new # <<>> /\ write_ok
                count == IF success THEN write_count + Len(new) ELSE write_count
            IN /\ count <= MaxWrites
               /\ id_cache' = acc.id_cache
               /\ file' = IF success
                          THEN Document(insert_many_data(_read_file(file, TRUE), new))
                          ELSE file
               /\ write_count' = count
               /\ IF success /\ backup_due(count, backup_frequency)
                  THEN backups' \in _create_backup(backups, file')
                  ELSE backups' = backups
               /\ call' = Call("process_notifications", notifications, stats, TRUE, success,
                               success /\ backup_due(count, backup_frequency))
               /\ UNCHANGED <<cat, tmp, backup_frequency>>

InitWriteFail ==
    /\ cat \in ListingCategories \cup {"notifications"}
    /\ file = Document(<<>>)
    /\ tmp = NoFile
    /\ write_count = 0
    /\ backups = 0
    /\ backup_frequency = MaxWrites
    /\ id_cache = {}
    /\ call = Call("init", <<>>, NoStats, TRUE, FALSE, FALSE)
    /\ ConcUnused
    /\ RefreshUnused
    /\ ExtUnused

NextWriteFail ==
    \/ \E jobs \in Batches, write_ok \in BOOLEAN :
          /\ cat = "jobs"
          /\ process_listing_io("process_jobs", jobs, write_ok)
          /\ UNCHANGED <<concVars, refreshVars, extVars>>
    \/ \E results \in Batches, write_ok \in BOOLEAN :
          /\ cat = "results"
          /\ process_listing_io("process_results", results, write_ok)
          /\ UNCHANGED <<concVars, refreshVars, extVars>>
    \/ \E cards \in Batches, write_ok \in BOOLEAN :
          /\ cat = "admit_cards"
          /\ process_listing_io("process_admit_cards", cards, write_ok)
          /\ UNCHANGED <<concVars, refreshVars, extVars>>
    \/ \E notifications \in Batches, write_ok \in BOOLEAN :
          /\ process_notifications_io(notifications, write_ok)
          /\ UNCHANGED <<concVars, refreshVars, extVars>>

SpecWriteFail == InitWriteFail /\ [][NextWriteFail]_vars

\* C25 as claimed: when a process_* call returns with new > 0, the category
\* file holds every valid entry of the batch, and a call whose category write
\* failed reports no entry as new.
C25_NewIsStored ==
    [][(call'.op \in AllProcessOps /\ call'.stats.new > 0) =>
          /\ call'.wrote
          /\ IdsOf(Passing(call'.jobs)) \subseteq IdsOf(file'.doc)]_vars

\* C26 as claimed: with the Processor as only writer, every id of the id
\* cache of a category is the id of a record stored in the category's file,
\* also after a failed batch write.
C26_CacheIdsAreStored == id_cache \subseteq IdsOf(file.doc)

\* -------------------- SpecIdPair: the ids of two entries of one crawl
\* Field values that can hold the separator or be empty (generic_crawler
\* passes organization = '')
SeparatorChars == {"a", "A", "_"}

FieldValues == SeqsUpTo(SeparatorChars, MaxFieldLen)

Triples == [title : FieldValues, organization : FieldValues, portal : FieldValues]

\* entry_id = generate_entry_id(title, organization, self.portal_name) for the
\* first of two entries
first_entry_id ==
    /\ idgen.pc = "entries"
    /\ idgen' = [idgen EXCEPT !.pc = "one",
                    !.id1 = generate_entry_id(idgen.e1.title, idgen.e1.organization,
                                              idgen.e1.portal)]
    /\ UNCHANGED idRest

\* the same call for the second entry
second_entry_id ==
    /\ idgen.pc = "one"
    /\ idgen' = [idgen EXCEPT !.pc = "both",
                    !.id2 = generate_entry_id(idgen.e2.title, idgen.e2.organization,
                                              idgen.e2.portal)]
    /\ UNCHANGED idRest

InitIdPair ==
    /\ StoreUnused
    /\ ConcUnused
    /\ RefreshUnused
    /\ \E e1 \in Triples, e2 \in Triples :
         idgen = [pc |-> "entries", e1 |-> e1, e2 |-> e2, id1 |-> <<>>, id2 |-> <<>>]
    /\ backup_dir = <<>> /\ manager = <<>> /\ fetcher = <<>> /\ detail = <<>>
    /\ runs = <<>> /\ api = <<>>

NextIdPair ==
    \/ first_entry_id
    \/ second_entry_id

SpecIdPair == InitIdPair /\ [][NextIdPair]_vars

\* C27 as claimed: two entries with the same id have the same title, the same
\* organization and the same portal, letter case ignored.
C27_SameIdSameTriple ==
    (idgen.pc = "both" /\ idgen.id1 = idgen.id2) =>
        /\ lower(idgen.e1.title) = lower(idgen.e2.title)
        /\ lower(idgen.e1.organization) = lower(idgen.e2.organization)
        /\ lower(idgen.e1.portal) = lower(idgen.e2.portal)

\* ------------- SpecRefreshFair: the refresh threads under fair scheduling
\* A started run_refresh thread is scheduled again and again, and execute_all
\* ends (every request of a crawl has a timeout): the next step of a thread
\* that can take one is eventually taken.
run_refresh_step(r) ==
    /\ \/ SetInProgress(r)
       \/ \E raised \in BOOLEAN : ExecuteAllEnds(r, raised)
       \/ ClearInProgress(r)
    /\ UNCHANGED <<storeVars, concVars, extVars>>

SpecRefreshFair ==
    /\ InitRefresh
    /\ [][NextRefresh]_vars
    /\ \A r \in Requests : WF_vars(run_refresh_step(r))

\* every started refresh thread runs to its end
StartedFinishes ==
    \A r \in Requests : (worker[r] = "started") ~> (worker[r] = "finished")

\* the guard does not stay locked
GuardReopens == refresh_status.in_progress ~> ~refresh_status.in_progress

\* the step that ends a refresh leaves the guard open and the status at
\* completed or error
FinishLeavesResult ==
    [][\A r \in Requests :
          (worker[r] = "finally" /\ worker'[r] = "finished") =>
              /\ ~refresh_status'.in_progress
              /\ refresh_status'.status \in {"completed", "error"}]_vars

\* C28 as claimed: every refresh that has started eventually resets
\* in_progress to false and then leaves the status at completed or error, and
\* the guard never stays locked.
C28_RefreshEnds == StartedFinishes /\ GuardReopens /\ FinishLeavesResult

\* ------------------------------------ SpecGetAll: JSONDatabase.get_all
\* limit=None, the default (written as an integer no caller passes)
NoLimit == -1

\* the limits a caller passes: None or an integer n >= 0
Limits == {NoLimit} \cup 0..MaxGetLimit

\* data[:limit] for limit > 0
first_n(data, n) == SubSeq(data, 1, Min(n, Len(data)))

\* get_all: `if limit: return data[:limit]`, else data; 0 is falsy like None
get_all_data(data, limit) ==
    IF limit # NoLimit /\ limit # 0 THEN first_n(data, limit) ELSE data

\* get_all(category, limit) on the category of the model
get_all(limit) ==
    /\ call' = [op |-> "get_all", limit |-> limit,
                result |-> get_all_data(_read_file(file, TRUE), limit)]
    /\ UNCHANGED <<cat, file, tmp, write_count, backups, backup_frequency, id_cache>>

InitGetAll ==
    /\ cat = "jobs"
    /\ file = Document(<<>>)
    /\ tmp = NoFile
    /\ write_count = 0
    /\ backups = 0
    /\ backup_frequency = 1
    /\ id_cache = {}
    /\ call = Call("init", <<>>, NoStats, TRUE, FALSE, FALSE)
    /\ ConcUnused
    /\ RefreshUnused
    /\ ExtUnused

NextGetAll ==
    \/ \E jobs \in Batches :
          process_jobs(jobs) /\ UNCHANGED <<concVars, refreshVars, extVars>>
    \/ \E limit \in Limits :
          get_all(limit) /\ UNCHANGED <<concVars, refreshVars, extVars>>

SpecGetAll == InitGetAll /\ [][NextGetAll]_vars

\* C29 as claimed: get_all with an integer limit n >= 0 returns the first
\* min(n, size) records in stored order (none for n = 0), with no limit it
\* returns all records, and it leaves the category file as it was.
C29_FirstNRecords ==
    [][call'.op = "get_all" =>
          /\ file' = file
          /\ call'.limit = NoLimit => call'.result = file.doc
          /\ call'.limit # NoLimit =>
                /\ Len(call'.result) = Min(call'.limit, Len(file.doc))
                /\ \A k \in 1..Len(call'.result) : call'.result[k] = file.doc[k]]_vars

\* C30 as claimed (SpecManager): the portal_stats list of every summary that
\* execute_all returns has one entry per portal executed in that call, its
\* length is the summary's portals_crawled, also on a repeated execute_all of
\* the same CrawlerManager.
C30_PortalStatsOfThisRun ==
    manager.runs_done >= 1 => manager.summary.portal_stats = manager.summary.portals_crawled

====
